---- MODULE Spec2Model ----
(***************************************************************************)
(* Model of the duplicate-resolution engine of ProcessLeads                *)
(* (src/hubspot_duplicate_checker.py): the candidate source adapters, the  *)
(* three matching categories, the decision aggregator and the batch driver.*)
(*                                                                         *)
(* What the remote services answer is the environment: every HTTP request  *)
(* the code issues gets a response drawn from a bounded set (a network     *)
(* failure, a non-success status, a body that is not JSON, or a body with  *)
(* a list of candidates).  rapidfuzz and phonenumbers are libraries, not   *)
(* code of the repository: the value a fuzz.* call returns for a candidate *)
(* is carried by the candidate (first_ratio, token_set_ratio, ...), and    *)
(* phonenumbers is a table over the phone strings of the model.            *)
(***************************************************************************)
EXTENDS Integers, Sequences, FiniteSets, TLC

VARIABLES
    airtable_token,    \* constructor argument (NULL when not configured)
    airtable_base,     \* constructor argument (NULL when not configured)
    lead,              \* the lead being processed
    env,               \* the response of each remote service for this lead
    calls,             \* adapter methods invoked for this lead, in order
    contact_check,     \* result of check_contact_duplicates
    deal_check,        \* result of check_deal_duplicates
    alohacamp_check,   \* result of check_alohacamp_duplicates
    update_data,       \* the decision built by process_lead
    pc,                \* position of the caller
    store,             \* contacts_grid_view: id -> row
    leads,             \* process_batch: the fetched leads
    idx,               \* process_batch: position of the loop in leads
    updated_count,     \* process_batch: counter
    errors,            \* process_batch: counter
    writes,            \* updates issued to the store in this run, in order
    result,            \* what the last process_batch returned
    fetch,             \* how the last query.execute() of the fetch ended
    raised,            \* exceptions of process_lead caught in this run
    sleeps,            \* time.sleep(0.1) calls of this run
    args,              \* arguments of a direct call of fetch_leads_batch
    value,             \* argument of a direct call of normalize_text
    normalized,        \* what that call returned
    validators,        \* ZeroBounce validator runs: run -> its locals
    instantly          \* mark_instantly_leads_in_supabase: its locals

lead_vars == <<lead, env, calls, contact_check, deal_check, alohacamp_check,
               update_data>>
batch_vars == <<store, leads, idx, updated_count, errors, writes, result,
                fetch, raised, sleeps, args>>
text_vars == <<value, normalized>>
vars == <<airtable_token, airtable_base, lead_vars, pc, batch_vars,
          text_vars, validators, instantly>>

---------------------------------------------------------------------------
(* Bounds and program constants *)

\* Longest candidate list a remote search returns in the model.
MaxResults == 2

\* Rows of contacts_grid_view in the model.
NumLeads == 2

\* Largest batch_size process_batch is called with in the model.
MaxBatch == 2

\* Longest text normalize_text is applied to in the model.
MaxTextLen == 3

\* `query.limit(batch_size * 10)`
FetchFactor == 10

\* `if first_score >= 80 or last_score >= 80`
NameThreshold == 80

\* `if best_match and best_score >= 70`
PropertyThreshold == 70

---------------------------------------------------------------------------
(* Values *)

\* Python None / SQL NULL.
NULL == "NULL"

\* Python truthiness of an optional string.
Truthy(s) == s # NULL /\ s # ""

SeqUpTo(S, n) == UNION {[1..k -> S] : k \in 0..n}

Emails == {"", "nan", "a@x.com"}
Phones == {NULL, "abc", "600100200", "+48600100200"}
Countries == {"", "pl"}
FirstNames == {"", "Jan"}
LastNames == {"", "Kowalski"}
PropertyNames == {NULL, "", "Seaside Villa"}

\* A row of contacts_grid_view as the cascade reads it.
Leads ==
    [id : {1}, email : Emails, phone : Phones, country : Countries,
     first_name : FirstNames, last_name : LastNames,
     property_name : PropertyNames]

\* Values fuzz.ratio takes around the name threshold.
NameScores == {79, 80, 81}

\* A name part of a HubSpot contact: its text and the value fuzz.ratio
\* returns for it (normalised) against the lead's part.  The empty text
\* scores 0.
ScoredNames(text) == {[text |-> "", ratio |-> 0]} \cup
                     {[text |-> text, ratio |-> s] : s \in NameScores}

\* HubSpot contact objects (without their id) a search can return.
Contacts ==
    {[properties |-> [email |-> "c@x.com", phone |-> "+48600100200",
                      firstname |-> f, lastname |-> l]] :
        f \in ScoredNames("Jan"), l \in ScoredNames("Kowalsky")}

\* Values of the two property-name metrics around the property threshold.
PropertyScores == {0, 69, 70, 100}

\* A candidate's property name: its text and the values the two metrics
\* return for it (normalised) against the lead's property name.
ScoredProperties ==
    {[text |-> "Seaside Villas", token_set_ratio |-> a,
      partial_token_sort_ratio |-> b] :
        a \in PropertyScores, b \in PropertyScores}

\* HubSpot deal objects (without their id).
Deals == {[properties |-> [dealname |-> n]] : n \in ScoredProperties}

\* Airtable records (without their id) of the Properties table, with the
\* two fields the program reads.  The search filters on {Property Name},
\* which holds the same name as Name or another name that contains the
\* lead's property name.
Records ==
    UNION {{[fields |-> ("Name" :> n) @@ ("Property Name" :> q)] :
               q \in {n, [text |-> "Seaside Villa Annex",
                          token_set_ratio |-> 100,
                          partial_token_sort_ratio |-> 100]}} :
           n \in ScoredProperties}

\* The objects of one response carry distinct ids: the position.
WithIds(s) == [i \in DOMAIN s |-> [id |-> i] @@ s[i]]

\* What a request can come back with.
Failures == {[kind |-> "network_error"], [kind |-> "http_error"],
             [kind |-> "bad_json"]}
Responses(Pool) ==
    Failures \cup
    {[kind |-> "ok", results |-> WithIds(s)] : s \in SeqUpTo(Pool, MaxResults)}

\* No request was issued.
NoRequest == [kind |-> "no_request"]

---------------------------------------------------------------------------
(* Libraries *)

\* phonenumbers.parse + is_possible_number + is_valid_number + format_number
\* on the phone strings of the model: the E.164 form, or NULL when parsing
\* raises or the number is not valid.  `default` is the default region.
phonenumbers_e164(raw, default) ==
    IF raw = "+48600100200" THEN "+48600100200"
    ELSE IF raw = "600100200" /\ default = "PL" THEN "+48600100200"
    ELSE NULL

\* str.upper on the country codes of the model.
upper(s) == IF s = "pl" THEN "PL" ELSE s

\* fuzz.ratio(normalize_text(lead part), normalize_text(candidate part)).
fuzz_ratio(lead_part, candidate_part) == candidate_part.ratio

\* fuzz.token_set_ratio / fuzz.partial_token_sort_ratio of the normalised
\* lead property name and the normalised candidate name.
fuzz_token_set_ratio(property_name, candidate_name) ==
    candidate_name.token_set_ratio
fuzz_partial_token_sort_ratio(property_name, candidate_name) ==
    candidate_name.partial_token_sort_ratio

Max(a, b) == IF a >= b THEN a ELSE b

\* f"{firstname} {lastname}".strip()
full_name(firstname, lastname) ==
    IF firstname = "" THEN lastname
    ELSE IF lastname = "" THEN firstname
    ELSE firstname \o " " \o lastname

---------------------------------------------------------------------------
(* Candidate source adapters *)

\* Each adapter returns early (no request) on an empty criterion; otherwise
\* try: post; raise_for_status; json; data.get("results", [])
\* except Exception: return []

\* The adapter issues an HTTP request (it does not return early).
email_request(email) == Truthy(email) /\ email # "nan"
phone_request(phone_e164) == Truthy(phone_e164)
name_request(first_name, last_name) == Truthy(first_name) \/ Truthy(last_name)
property_request(property_name) == Truthy(property_name)

search_contacts_by_email(email, response) ==
    IF ~email_request(email) THEN <<>>
    ELSE IF response.kind = "ok" THEN response.results ELSE <<>>

search_contacts_by_phone(phone_e164, response) ==
    IF ~phone_request(phone_e164) THEN <<>>
    ELSE IF response.kind = "ok" THEN response.results ELSE <<>>

search_contacts_by_name(first_name, last_name, response) ==
    IF ~name_request(first_name, last_name) THEN <<>>
    ELSE IF response.kind = "ok" THEN response.results ELSE <<>>

search_deals_by_property_name(property_name, response) ==
    IF ~property_request(property_name) THEN <<>>
    ELSE IF response.kind = "ok" THEN response.results ELSE <<>>

search_properties(property_name, response) ==
    IF ~property_request(property_name) THEN <<>>
    ELSE IF response.kind = "ok" THEN response.results ELSE <<>>

---------------------------------------------------------------------------
(* Normalizer *)

normalize_phone(phone, country_code) ==
    IF ~Truthy(phone) THEN NULL
    ELSE LET default == IF Truthy(country_code) THEN upper(country_code)
                        ELSE NULL
         IN  phonenumbers_e164(phone, default)

---------------------------------------------------------------------------
(* Matching cascade: contact category *)

\* The responses e (email), p (phone), n (name) are what the remote service
\* answers to the request of each strategy, if the strategy issues one.

first_score(l, contact) ==
    IF Truthy(l.first_name) /\ Truthy(contact.properties.firstname.text)
    THEN fuzz_ratio(l.first_name, contact.properties.firstname)
    ELSE 0

last_score(l, contact) ==
    IF Truthy(l.last_name) /\ Truthy(contact.properties.lastname.text)
    THEN fuzz_ratio(l.last_name, contact.properties.lastname)
    ELSE 0

\* Faulty variant of name_accepted: both parts must reach the threshold.
name_accepted_both(l, contact) ==
    first_score(l, contact) >= NameThreshold /\
    last_score(l, contact) >= NameThreshold

\* `if first_score >= 80 or last_score >= 80`
name_accepted(l, contact) ==
    first_score(l, contact) >= NameThreshold \/
    last_score(l, contact) >= NameThreshold

\* `for contact in name_results: ... break`: the position of the first
\* accepted candidate from position i on, 0 when there is none.
RECURSIVE name_match(_, _, _)
name_match(l, name_results, i) ==
    IF i > Len(name_results) THEN 0
    ELSE IF name_accepted(l, name_results[i]) THEN i
    ELSE name_match(l, name_results, i + 1)

\* Faulty variant of phone_search_invoked: `if phone_e164:` instead of `elif`.
phone_search_always(l, e) ==
    Truthy(normalize_phone(l.phone, l.country))

\* `elif phone_e164:` is reached.
phone_search_invoked(l, e) ==
    search_contacts_by_email(l.email, e) = <<>> /\
    Truthy(normalize_phone(l.phone, l.country))

\* contact_results before the name strategy.
exact_results(l, e, p) ==
    LET by_email == search_contacts_by_email(l.email, e)
    IN  IF by_email # <<>> THEN by_email
        ELSE IF phone_search_invoked(l, e)
        THEN search_contacts_by_phone(normalize_phone(l.phone, l.country), p)
        ELSE by_email

\* Faulty variant of name_search_invoked: the name strategy is given up when the
\* phone request failed.
name_search_unless_failed(l, e, p) ==
    exact_results(l, e, p) = <<>> /\
    (Truthy(l.first_name) \/ Truthy(l.last_name)) /\
    p.kind \in {"ok", "no_request"}

\* `if not contact_results and (first_name or last_name):`
name_search_invoked(l, e, p) ==
    exact_results(l, e, p) = <<>> /\
    (Truthy(l.first_name) \/ Truthy(l.last_name))

\* The adapter methods check_contact_duplicates invokes, in order.
contact_calls(l, e, p) ==
    <<"search_contacts_by_email">> \o
    (IF phone_search_invoked(l, e) THEN <<"search_contacts_by_phone">>
     ELSE <<>>) \o
    (IF name_search_invoked(l, e, p) THEN <<"search_contacts_by_name">>
     ELSE <<>>)

\* Faulty variant of check_contact_duplicates: without
\* `match_type = 'name'` in the name branch.
check_contact_duplicates_untyped(l, e, p, n) ==
    LET by_email == search_contacts_by_email(l.email, e)
        exact == exact_results(l, e, p)
        exact_type == IF by_email # <<>> THEN "email"
                      ELSE IF exact # <<>> THEN "phone" ELSE NULL
        name_results == IF name_search_invoked(l, e, p)
                        THEN search_contacts_by_name(l.first_name, l.last_name, n)
                        ELSE <<>>
        j == name_match(l, name_results, 1)
        contact_results == IF j > 0 THEN <<name_results[j]>> ELSE exact
    IN  IF contact_results # <<>>
        THEN LET contact == contact_results[1]
                 props == contact.properties
             IN  [found |-> TRUE,
                  contact_id |-> contact.id,
                  contact_email |-> props.email,
                  contact_phone |-> props.phone,
                  contact_name |-> full_name(props.firstname.text,
                                             props.lastname.text),
                  match_type |-> exact_type]
        ELSE [found |-> FALSE]

check_contact_duplicates(l, e, p, n) ==
    LET by_email == search_contacts_by_email(l.email, e)
        exact == exact_results(l, e, p)
        exact_type == IF by_email # <<>> THEN "email"
                      ELSE IF exact # <<>> THEN "phone" ELSE NULL
        name_results == IF name_search_invoked(l, e, p)
                        THEN search_contacts_by_name(l.first_name, l.last_name, n)
                        ELSE <<>>
        j == name_match(l, name_results, 1)
        contact_results == IF j > 0 THEN <<name_results[j]>> ELSE exact
        match_type == IF j > 0 THEN "name" ELSE exact_type
    IN  IF contact_results # <<>>
        THEN LET contact == contact_results[1]
                 props == contact.properties
             IN  [found |-> TRUE,
                  contact_id |-> contact.id,
                  contact_email |-> props.email,
                  contact_phone |-> props.phone,
                  contact_name |-> full_name(props.firstname.text,
                                             props.lastname.text),
                  match_type |-> match_type]
        ELSE [found |-> FALSE]

\* The responses the environment can give to check_contact_duplicates out
\* of the set R: a strategy that issues no request gets none.
EmailResponses(l, R) ==
    IF email_request(l.email) THEN R ELSE {NoRequest}
PhoneResponses(l, e, R) ==
    IF phone_search_invoked(l, e) THEN R ELSE {NoRequest}
NameResponses(l, e, p, R) ==
    IF name_search_invoked(l, e, p) THEN R ELSE {NoRequest}

---------------------------------------------------------------------------
(* Matching cascade: deal category *)

\* max(fuzz.token_set_ratio(...), fuzz.partial_token_sort_ratio(...))
deal_score(l, deal) ==
    Max(fuzz_token_set_ratio(l.property_name, deal.properties.dealname),
        fuzz_partial_token_sort_ratio(l.property_name,
                                      deal.properties.dealname))

\* Faulty variant of best_deal: `if score >= best_score`.
RECURSIVE best_deal_keep_last(_, _, _, _, _)
best_deal_keep_last(l, deal_results, i, best_match, best_score) ==
    IF i > Len(deal_results)
    THEN [best_match |-> best_match, best_score |-> best_score]
    ELSE IF deal_score(l, deal_results[i]) >= best_score
    THEN best_deal_keep_last(l, deal_results, i + 1, i,
                             deal_score(l, deal_results[i]))
    ELSE best_deal_keep_last(l, deal_results, i + 1, best_match, best_score)

\* `for deal in deal_results: ... if score > best_score: ...` from position
\* i on; best_match is a position of deal_results, 0 for None.
RECURSIVE best_deal(_, _, _, _, _)
best_deal(l, deal_results, i, best_match, best_score) ==
    IF i > Len(deal_results)
    THEN [best_match |-> best_match, best_score |-> best_score]
    ELSE IF deal_score(l, deal_results[i]) > best_score
    THEN best_deal(l, deal_results, i + 1, i, deal_score(l, deal_results[i]))
    ELSE best_deal(l, deal_results, i + 1, best_match, best_score)

\* `if best_match and best_score >= 70`
deal_accepted(best) ==
    best.best_match # 0 /\ best.best_score >= PropertyThreshold

\* Faulty variant of deal_calls: without `if not property_name: return`.
deal_calls_always(l) == <<"search_deals_by_property_name">>

\* The adapter methods check_deal_duplicates invokes.
deal_calls(l) ==
    IF Truthy(l.property_name) THEN <<"search_deals_by_property_name">>
    ELSE <<>>

\* Faulty variant of check_deal_duplicates: the best score is reported for
\* a candidate under the threshold too.
check_deal_duplicates_scored(l, d) ==
    IF ~Truthy(l.property_name) THEN [found |-> FALSE]
    ELSE LET deal_results == search_deals_by_property_name(l.property_name, d)
             best == best_deal(l, deal_results, 1, 0, 0)
         IN  IF deal_results # <<>> /\ deal_accepted(best)
             THEN LET best_match == deal_results[best.best_match]
                  IN  [found |-> TRUE,
                       deal_id |-> best_match.id,
                       deal_name |-> best_match.properties.dealname.text,
                       deal_score |-> best.best_score]
             ELSE IF deal_results # <<>>
             THEN [found |-> FALSE, deal_score |-> best.best_score]
             ELSE [found |-> FALSE]

check_deal_duplicates(l, d) ==
    IF ~Truthy(l.property_name) THEN [found |-> FALSE]
    ELSE LET deal_results == search_deals_by_property_name(l.property_name, d)
             best == best_deal(l, deal_results, 1, 0, 0)
         IN  IF deal_results # <<>> /\ deal_accepted(best)
             THEN LET best_match == deal_results[best.best_match]
                  IN  [found |-> TRUE,
                       deal_id |-> best_match.id,
                       deal_name |-> best_match.properties.dealname.text,
                       deal_score |-> best.best_score]
             ELSE [found |-> FALSE]

DealResponses(l, R) ==
    IF deal_calls(l) # <<>> /\ property_request(l.property_name)
    THEN R ELSE {NoRequest}

---------------------------------------------------------------------------
(* Matching cascade: directory category *)

\* Faulty variant of airtable_configured: `if airtable_token`.
airtable_configured_by_token(token, base) == Truthy(token)

\* `AirtableClient(...) if airtable_token and airtable_base else None`
airtable_configured(token, base) == Truthy(token) /\ Truthy(base)

record_score(l, record) ==
    Max(fuzz_token_set_ratio(l.property_name, record.fields["Name"]),
        fuzz_partial_token_sort_ratio(l.property_name, record.fields["Name"]))

\* Faulty variant of best_record: `if score >= best_score`.
RECURSIVE best_record_keep_last(_, _, _, _, _)
best_record_keep_last(l, airtable_results, i, best_match, best_score) ==
    IF i > Len(airtable_results)
    THEN [best_match |-> best_match, best_score |-> best_score]
    ELSE IF record_score(l, airtable_results[i]) >= best_score
    THEN best_record_keep_last(l, airtable_results, i + 1, i,
                               record_score(l, airtable_results[i]))
    ELSE best_record_keep_last(l, airtable_results, i + 1, best_match,
                               best_score)

RECURSIVE best_record(_, _, _, _, _)
best_record(l, airtable_results, i, best_match, best_score) ==
    IF i > Len(airtable_results)
    THEN [best_match |-> best_match, best_score |-> best_score]
    ELSE IF record_score(l, airtable_results[i]) > best_score
    THEN best_record(l, airtable_results, i + 1, i,
                     record_score(l, airtable_results[i]))
    ELSE best_record(l, airtable_results, i + 1, best_match, best_score)

\* Faulty variant of record_accepted: `best_score > 70`.
record_accepted_above(best) ==
    best.best_match # 0 /\ best.best_score > PropertyThreshold

\* `if best_match and best_score >= 70`
record_accepted(best) ==
    best.best_match # 0 /\ best.best_score >= PropertyThreshold

\* The adapter methods check_alohacamp_duplicates invokes.
alohacamp_calls(l, airtable) ==
    IF airtable /\ Truthy(l.property_name) THEN <<"search_properties">>
    ELSE <<>>

check_alohacamp_duplicates(l, airtable, a) ==
    IF ~airtable THEN [found |-> FALSE]
    ELSE IF ~Truthy(l.property_name) THEN [found |-> FALSE]
    ELSE LET airtable_results == search_properties(l.property_name, a)
             best == best_record(l, airtable_results, 1, 0, 0)
         IN  IF airtable_results # <<>> /\ record_accepted(best)
             THEN LET best_match == airtable_results[best.best_match]
                  IN  [found |-> TRUE,
                       match_id |-> best_match.id,
                       match_name |-> best_match.fields["Property Name"].text,
                       score |-> best.best_score]
             ELSE [found |-> FALSE]

DirectoryResponses(l, airtable, R) ==
    IF alohacamp_calls(l, airtable) # <<>> /\ property_request(l.property_name)
    THEN R ELSE {NoRequest}

---------------------------------------------------------------------------
(* Decision aggregator *)

\* datetime.now().isoformat()
now == "2024-01-01T00:00:00"

\* Faulty variant of verdict: the deal branch is tested before the contact branch.
verdict_deal_first(cc, dc, ac) ==
    IF dc.found
    THEN [status |-> "duplicate", needs_deal |-> FALSE,
          reason |-> "deal_exists"]
    ELSE IF cc.found
    THEN [status |-> "duplicate", needs_deal |-> TRUE,
          reason |-> "contact_duplicate"]
    ELSE IF ac.found
    THEN [status |-> "duplicate", needs_deal |-> FALSE,
          reason |-> "alohacamp_exists"]
    ELSE [status |-> "unique", needs_deal |-> TRUE, reason |-> "new_lead"]

\* Faulty variant of verdict: a directory match leaves the status unique.
verdict_directory_unique(cc, dc, ac) ==
    IF cc.found
    THEN [status |-> "duplicate", needs_deal |-> TRUE,
          reason |-> "contact_duplicate"]
    ELSE IF dc.found
    THEN [status |-> "duplicate", needs_deal |-> FALSE,
          reason |-> "deal_exists"]
    ELSE IF ac.found
    THEN [status |-> "unique", needs_deal |-> FALSE,
          reason |-> "alohacamp_exists"]
    ELSE [status |-> "unique", needs_deal |-> TRUE, reason |-> "new_lead"]

\* `if contact_check['found']: ... elif ... else: ...`
verdict(cc, dc, ac) ==
    IF cc.found
    THEN [status |-> "duplicate", needs_deal |-> TRUE,
          reason |-> "contact_duplicate"]
    ELSE IF dc.found
    THEN [status |-> "duplicate", needs_deal |-> FALSE,
          reason |-> "deal_exists"]
    ELSE IF ac.found
    THEN [status |-> "duplicate", needs_deal |-> FALSE,
          reason |-> "alohacamp_exists"]
    ELSE [status |-> "unique", needs_deal |-> TRUE, reason |-> "new_lead"]

\* `update_data = {...}`
base_fields(v) ==
    [hubspot_duplicate_check_2 |-> v.status,
     hubspot_checked_at_2 |-> now,
     needs_hubspot_deal |-> v.needs_deal,
     deal_creation_reason |-> v.reason]

\* `if contact_check['found']: update_data.update({...})`
contact_fields(cc) ==
    IF cc.found
    THEN [hubspot_contact_id_2 |-> cc.contact_id,
          hubspot_contact_email_2 |-> cc.contact_email,
          hubspot_contact_phone_2 |-> cc.contact_phone,
          hubspot_contact_name_2 |-> cc.contact_name,
          hubspot_contact_match_type_2 |-> cc.match_type]
    ELSE <<>>

\* `if deal_check['found']: update_data.update({...})`
deal_fields(dc) ==
    IF dc.found
    THEN [hubspot_deal_id_2 |-> dc.deal_id,
          hubspot_deal_name_2 |-> dc.deal_name,
          hubspot_deal_score_2 |-> dc.deal_score]
    ELSE <<>>

\* Faulty variant of alohacamp_fields: without the else branch.
alohacamp_fields_no_else(ac) ==
    IF ac.found
    THEN [alohacamp_exists_2 |-> TRUE,
          alohacamp_match_id_2 |-> ac.match_id,
          alohacamp_match_name_2 |-> ac.match_name,
          alohacamp_score_2 |-> ac.score]
    ELSE <<>>

\* `if alohacamp_check['found']: update_data.update({...})
\*  else: update_data['alohacamp_exists_2'] = False`
alohacamp_fields(ac) ==
    IF ac.found
    THEN [alohacamp_exists_2 |-> TRUE,
          alohacamp_match_id_2 |-> ac.match_id,
          alohacamp_match_name_2 |-> ac.match_name,
          alohacamp_score_2 |-> ac.score]
    ELSE [alohacamp_exists_2 |-> FALSE]

\* Faulty variant of decision: the linkage fields are added in the branch that
\* gives the reason only.
decision_deciding_branch(cc, dc, ac) ==
    [alohacamp_exists_2 |-> ac.found] @@
    (IF cc.found THEN contact_fields(cc)
     ELSE IF dc.found THEN deal_fields(dc)
     ELSE IF ac.found THEN alohacamp_fields(ac)
     ELSE <<>>) @@
    base_fields(verdict(cc, dc, ac))

\* The update_data process_lead builds from the three category results;
\* dict.update: a later key overrides an earlier one.
decision(cc, dc, ac) ==
    alohacamp_fields(ac) @@ deal_fields(dc) @@ contact_fields(cc) @@
    base_fields(verdict(cc, dc, ac))

process_lead(l, airtable, e, p, n, d, a) ==
    decision(check_contact_duplicates(l, e, p, n),
             check_deal_duplicates(l, d),
             check_alohacamp_duplicates(l, airtable, a))

\* The adapter methods process_lead invokes, in order.
process_lead_calls(l, airtable, e, p) ==
    contact_calls(l, e, p) \o deal_calls(l) \o alohacamp_calls(l, airtable)

---------------------------------------------------------------------------
(* check_contact_duplicates applied to every lead of the model *)

NoEnv == [email |-> NoRequest, phone |-> NoRequest, name |-> NoRequest,
          deal |-> NoRequest, directory |-> NoRequest]
NoCheck == [found |-> FALSE]
NoLead == [id |-> 0]

\* No batch is running and the store is not looked at.
NoBatch ==
    /\ store = <<>> /\ leads = <<>> /\ idx = 0
    /\ updated_count = 0 /\ errors = 0 /\ writes = <<>> /\ result = <<>>
    /\ fetch = "not_run" /\ raised = 0 /\ sleeps = 0 /\ args = <<>>

\* normalize_text is not called.
NoText == value = NULL /\ normalized = NULL

\* No run of the ZeroBounce validator exists.
NoValidators == validators = <<>>

\* The script that marks the leads known to Instantly is not running and
\* has not run.
NoInstantly == instantly = <<>>

\* The contact category does not read the property name.
InitContact ==
    /\ lead \in {l \in Leads : l.property_name = ""}
    /\ airtable_token = NULL /\ airtable_base = NULL
    /\ env = NoEnv /\ calls = <<>>
    /\ contact_check = NoCheck /\ deal_check = NoCheck
    /\ alohacamp_check = NoCheck /\ update_data = <<>>
    /\ pc = "ready"
    /\ NoBatch /\ NoText /\ NoValidators /\ NoInstantly

CallCheckContact ==
    /\ pc = "ready"
    /\ \E e \in EmailResponses(lead, Responses(Contacts)) :
       \E p \in PhoneResponses(lead, e, Responses(Contacts)) :
       \E n \in NameResponses(lead, e, p, Responses(Contacts)) :
          /\ env' = [NoEnv EXCEPT !.email = e, !.phone = p, !.name = n]
          /\ calls' = contact_calls(lead, e, p)
          /\ contact_check' = check_contact_duplicates(lead, e, p, n)
    /\ pc' = "returned"
    /\ UNCHANGED <<airtable_token, airtable_base, lead, deal_check,
                   alohacamp_check, update_data, batch_vars,
                   text_vars,
                   validators, instantly>>

NextContact == CallCheckContact

SpecContact == InitContact /\ [][NextContact]_vars

---------------------------------------------------------------------------
(* check_deal_duplicates and check_alohacamp_duplicates applied to every    *)
(* lead and every directory configuration of the model                     *)

Tokens == {NULL, "pat"}
Bases == {NULL, "app"}

\* The two categories read the property name only.
InitProperty ==
    /\ lead \in {l \in Leads : /\ l.email = "a@x.com" /\ l.phone = NULL
                               /\ l.country = "" /\ l.first_name = ""
                               /\ l.last_name = ""}
    /\ airtable_token \in Tokens /\ airtable_base \in Bases
    /\ env = NoEnv /\ calls = <<>>
    /\ contact_check = NoCheck /\ deal_check = NoCheck
    /\ alohacamp_check = NoCheck /\ update_data = <<>>
    /\ pc = "ready"
    /\ NoBatch /\ NoText /\ NoValidators /\ NoInstantly

CallCheckDeal ==
    /\ pc = "ready"
    /\ \E d \in DealResponses(lead, Responses(Deals)) :
          /\ env' = [NoEnv EXCEPT !.deal = d]
          /\ deal_check' = check_deal_duplicates(lead, d)
    /\ calls' = deal_calls(lead)
    /\ pc' = "returned_deal"
    /\ UNCHANGED <<airtable_token, airtable_base, lead, contact_check,
                   alohacamp_check, update_data, batch_vars,
                   text_vars,
                   validators, instantly>>

CallCheckAlohacamp ==
    /\ pc = "ready"
    /\ LET airtable == airtable_configured(airtable_token, airtable_base)
       IN  /\ \E a \in DirectoryResponses(lead, airtable, Responses(Records)) :
                 /\ env' = [NoEnv EXCEPT !.directory = a]
                 /\ alohacamp_check' =
                        check_alohacamp_duplicates(lead, airtable, a)
           /\ calls' = alohacamp_calls(lead, airtable)
    /\ pc' = "returned_alohacamp"
    /\ UNCHANGED <<airtable_token, airtable_base, lead, contact_check,
                   deal_check, update_data, batch_vars,
                   text_vars,
                   validators, instantly>>

\* Both categories applied to the same lead, the deal search and the
\* directory search answering with the same candidate names in the same
\* order: names[i] is the dealname of the i-th deal and the Name of the
\* i-th record.
CallCheckBoth ==
    /\ pc = "ready"
    /\ LET airtable == airtable_configured(airtable_token, airtable_base)
       IN  \E names \in SeqUpTo(ScoredProperties, MaxResults) :
              LET d == IF deal_calls(lead) # <<>>
                       THEN [kind |-> "ok",
                             results |-> WithIds(
                                 [i \in DOMAIN names |->
                                     [properties |-> [dealname |-> names[i]]]])]
                       ELSE NoRequest
                  a == IF alohacamp_calls(lead, airtable) # <<>>
                       THEN [kind |-> "ok",
                             results |-> WithIds(
                                 [i \in DOMAIN names |->
                                     [fields |-> ("Name" :> names[i]) @@
                                         ("Property Name" :> names[i])]])]
                       ELSE NoRequest
              IN  /\ env' = [NoEnv EXCEPT !.deal = d, !.directory = a]
                  /\ deal_check' = check_deal_duplicates(lead, d)
                  /\ alohacamp_check' =
                         check_alohacamp_duplicates(lead, airtable, a)
                  /\ calls' = deal_calls(lead) \o
                                  alohacamp_calls(lead, airtable)
    /\ pc' = "returned_both"
    /\ UNCHANGED <<airtable_token, airtable_base, lead, contact_check,
                   update_data, batch_vars, text_vars,
                   validators, instantly>>

NextProperty == CallCheckDeal \/ CallCheckAlohacamp \/ CallCheckBoth

SpecProperty == InitProperty /\ [][NextProperty]_vars

\* The three categories, each applied on its own to every lead it reads.
InitCategories == InitContact \/ InitProperty

NextCategories == NextContact \/ NextProperty

SpecCategories == InitCategories /\ [][NextCategories]_vars

---------------------------------------------------------------------------
(* process_lead applied to every lead and directory configuration, each    *)
(* remote service answering with a failure or with up to MaxResults        *)
(* candidates                                                              *)

\* A contact the name strategy accepts on the first name only, a deal and a
\* directory record at the property threshold.
LeadContacts ==
    {c \in Contacts : /\ c.properties.firstname.ratio = 81
                      /\ c.properties.lastname.ratio = 79}
LeadDeals ==
    {x \in Deals : /\ x.properties.dealname.token_set_ratio = 70
                   /\ x.properties.dealname.partial_token_sort_ratio = 69}
LeadRecords ==
    {x \in Records : /\ x.fields["Name"].token_set_ratio = 69
                     /\ x.fields["Name"].partial_token_sort_ratio = 70
                     /\ x.fields["Property Name"] = x.fields["Name"]}

InitLead ==
    /\ lead \in {l \in Leads : /\ l.country = ""
                               /\ l.phone \in {NULL, "+48600100200"}}
    /\ airtable_token \in Tokens /\ airtable_base \in Bases
    /\ env = NoEnv /\ calls = <<>>
    /\ contact_check = NoCheck /\ deal_check = NoCheck
    /\ alohacamp_check = NoCheck /\ update_data = <<>>
    /\ pc = "ready"
    /\ NoBatch /\ NoText /\ NoValidators /\ NoInstantly

CallProcessLead ==
    /\ pc = "ready"
    /\ LET airtable == airtable_configured(airtable_token, airtable_base)
       IN  \E e \in EmailResponses(lead, Responses(LeadContacts)) :
           \E p \in PhoneResponses(lead, e, Responses(LeadContacts)) :
           \E n \in NameResponses(lead, e, p, Responses(LeadContacts)) :
           \E d \in DealResponses(lead, Responses(LeadDeals)) :
           \E a \in DirectoryResponses(lead, airtable, Responses(LeadRecords)) :
              /\ env' = [email |-> e, phone |-> p, name |-> n, deal |-> d,
                         directory |-> a]
              /\ calls' = process_lead_calls(lead, airtable, e, p)
              /\ contact_check' = check_contact_duplicates(lead, e, p, n)
              /\ deal_check' = check_deal_duplicates(lead, d)
              /\ alohacamp_check' =
                     check_alohacamp_duplicates(lead, airtable, a)
              /\ update_data' = process_lead(lead, airtable, e, p, n, d, a)
    /\ pc' = "returned"
    /\ UNCHANGED <<airtable_token, airtable_base, lead, batch_vars, text_vars,
                   validators, instantly>>

NextLead == CallProcessLead

SpecLead == InitLead /\ [][NextLead]_vars

---------------------------------------------------------------------------
(* Batch driver *)

Min(a, b) == IF a <= b THEN a ELSE b
Take(seq, n) == SubSeq(seq, 1, Min(n, Len(seq)))

\* `.order('id', desc=False)`: the rows with an id in ids, ascending.
ordered(st, ids) ==
    [k \in 1..Cardinality(ids) |->
        st[CHOOSE i \in ids : Cardinality({j \in ids : j < i}) = k - 1]]

\* Faulty variant of eligible: the email is not looked at.
eligible_without_email(row) ==
    /\ row.zerobounce_status = "valid"
    /\ row.hubspot_duplicate_check_2 = NULL

\* Faulty variant of eligible: a row with a decision is taken again.
eligible_again(row) ==
    /\ row.zerobounce_status = "valid"
    /\ Truthy(row.email)

\* The client-side filter of fetch_leads_batch.
eligible(row) ==
    /\ row.zerobounce_status = "valid"
    /\ row.hubspot_duplicate_check_2 = NULL
    /\ Truthy(row.email)

\* Faulty variant of fetch_leads_batch: a failure of query.execute() is not
\* noticed and the rows are filtered all the same.
fetch_leads_batch_unchecked(st, batch_size, start_id, ok) ==
    LET ids == IF start_id # 0
               THEN {i \in DOMAIN st : i >= start_id}
               ELSE DOMAIN st
        all_leads == Take(ordered(st, ids), batch_size * FetchFactor)
    IN  Take(SelectSeq(all_leads, eligible), batch_size)

\* start_id 0 stands for None (`if start_id:`); ok: query.execute() returned.
fetch_leads_batch(st, batch_size, start_id, ok) ==
    IF ~ok THEN <<>>
    ELSE LET ids == IF start_id # 0
                    THEN {i \in DOMAIN st : i >= start_id}
                    ELSE DOMAIN st
             all_leads == Take(ordered(st, ids), batch_size * FetchFactor)
         IN  Take(SelectSeq(all_leads, eligible), batch_size)

\* The lead contents of the rows of the model: a lead with every signal, a
\* lead with an email only, a lead without an email.
FullLead(i) ==
    [id |-> i, email |-> "a@x.com", phone |-> "+48600100200", country |-> "",
     first_name |-> "Jan", last_name |-> "Kowalski",
     property_name |-> "Seaside Villa"]
EmailOnlyLead(i) ==
    [id |-> i, email |-> "a@x.com", phone |-> NULL, country |-> "",
     first_name |-> "", last_name |-> "", property_name |-> ""]
NoEmailLead(i) ==
    [id |-> i, email |-> "", phone |-> NULL, country |-> "",
     first_name |-> "Jan", last_name |-> "", property_name |-> ""]

ValidationStatuses == {NULL, "valid", "invalid"}

\* Rows without a decision: the lead with every signal in every validation
\* status, the other two as valid.
Rows(i) ==
    {FullLead(i) @@ [zerobounce_status |-> z,
                     hubspot_duplicate_check_2 |-> NULL] :
        z \in ValidationStatuses}
    \cup
    {l @@ [zerobounce_status |-> "valid", hubspot_duplicate_check_2 |-> NULL] :
        l \in {EmailOnlyLead(i), NoEmailLead(i)}}

\* In a batch each remote service fails, which the cascade takes as an
\* empty answer, or answers with one candidate.
BatchResponses(Pool) ==
    {[kind |-> "network_error"]} \cup
    {[kind |-> "ok", results |-> WithIds(s)] : s \in [1..1 -> Pool]}

Init ==
    /\ airtable_token \in Tokens /\ airtable_base \in Bases
    /\ lead = NoLead /\ env = NoEnv /\ calls = <<>>
    /\ contact_check = NoCheck /\ deal_check = NoCheck
    /\ alohacamp_check = NoCheck /\ update_data = <<>>
    /\ pc = "idle"
    /\ store \in {st \in [1..NumLeads -> UNION {Rows(i) : i \in 1..NumLeads}] :
                     \A i \in 1..NumLeads : st[i].id = i}
    /\ leads = <<>> /\ idx = 0
    /\ updated_count = 0 /\ errors = 0 /\ writes = <<>> /\ result = <<>>
    /\ fetch = "not_run" /\ raised = 0 /\ sleeps = 0 /\ args = <<>>
    /\ NoText /\ NoValidators /\ NoInstantly

\* The locals of process_lead before a lead is processed.
NoLeadYet ==
    /\ lead' = NoLead /\ env' = NoEnv /\ calls' = <<>>
    /\ contact_check' = NoCheck /\ deal_check' = NoCheck
    /\ alohacamp_check' = NoCheck /\ update_data' = <<>>

\* Faulty variant of no_leads: a summary with the three counts at 0.
zero_summary == [leads_processed |-> 0, updated_count |-> 0, errors |-> 0]

\* `return {"error": "No leads found to process"}`
no_leads == [error |-> "No leads found to process"]

\* The dict process_batch returns after the loop.
summary(ls, updated, errs) ==
    [leads_processed |-> Len(ls), updated_count |-> updated, errors |-> errs]

\* Faulty variant of count_error: only write failures are caught.
count_error_of_write(n, outcome) == IF outcome = "error" THEN n + 1 ELSE n

\* `except Exception as e: errors += 1`: an exception of process_lead
\* ("raised") or of the update ("error") is counted once.
count_error(n, outcome) ==
    IF outcome \in {"error", "raised"} THEN n + 1 ELSE n

\* Variant of sleep_after with the delay after the try statement.
sleep_after_always(n, outcome) == n + 1

\* `time.sleep(0.1)` is the last statement of the try block: it runs when
\* neither process_lead nor the update has raised.
sleep_after(n, outcome) ==
    IF outcome \in {"updated", "no_rows"} THEN n + 1 ELSE n

\* Faulty variant of next_idx: a lead whose update raised is tried again.
next_idx_retry(i, outcome) == IF outcome = "error" THEN i ELSE i + 1

\* `for lead in leads:` goes on to the next lead whatever the outcome.
next_idx(i, outcome) == i + 1

\* process_batch up to the loop: fetch, and return at once when nothing was
\* fetched.
StartBatch ==
    /\ pc = "idle"
    /\ \E batch_size \in 1..MaxBatch, start_id \in {0, NumLeads},
          ok \in BOOLEAN :
          /\ leads' = fetch_leads_batch(store, batch_size, start_id, ok)
          /\ fetch' = IF ok THEN "returned" ELSE "raised"
          /\ IF leads' = <<>>
             THEN /\ result' = no_leads
                  /\ pc' = "idle" /\ idx' = 0
             ELSE /\ result' = <<>>
                  /\ pc' = "loop" /\ idx' = 1
    /\ updated_count' = 0 /\ errors' = 0 /\ writes' = <<>>
    /\ raised' = 0 /\ sleeps' = 0
    /\ NoLeadYet
    /\ UNCHANGED <<airtable_token, airtable_base, store, args, text_vars,
                   validators, instantly>>

\* One iteration of `for lead in leads:` in which process_lead returns:
\* process_lead, the update of the row, the counters, the delay.  The update
\* raises, or affects the row, or affects no row because the row has
\* disappeared from the store since the fetch.
ProcessNext ==
    /\ pc = "loop" /\ idx <= Len(leads)
    /\ lead' = leads[idx]
    /\ LET airtable == airtable_configured(airtable_token, airtable_base)
           l == leads[idx]
       IN  \E e \in EmailResponses(l, BatchResponses(LeadContacts)) :
           \E p \in PhoneResponses(l, e, BatchResponses(LeadContacts)) :
           \E n \in NameResponses(l, e, p, BatchResponses(LeadContacts)) :
           \E d \in DealResponses(l, BatchResponses(LeadDeals)) :
           \E a \in DirectoryResponses(l, airtable, BatchResponses(LeadRecords)) :
           \E outcome \in {"updated", "no_rows", "error"} :
              /\ env' = NoEnv
              /\ calls' = process_lead_calls(l, airtable, e, p)
              /\ contact_check' = check_contact_duplicates(l, e, p, n)
              /\ deal_check' = check_deal_duplicates(l, d)
              /\ alohacamp_check' = check_alohacamp_duplicates(l, airtable, a)
              /\ update_data' = process_lead(l, airtable, e, p, n, d, a)
              /\ writes' = Append(writes, [id |-> l.id, outcome |-> outcome])
              /\ store' =
                   IF outcome = "updated"
                   THEN [store EXCEPT ![l.id] = update_data' @@ @]
                   ELSE IF outcome = "no_rows"
                   THEN [j \in DOMAIN store \ {l.id} |-> store[j]]
                   ELSE store
              /\ updated_count' = IF outcome = "updated"
                                  THEN updated_count + 1 ELSE updated_count
              /\ errors' = count_error(errors, outcome)
              /\ sleeps' = sleep_after(sleeps, outcome)
              /\ idx' = next_idx(idx, outcome)
    /\ UNCHANGED <<airtable_token, airtable_base, pc, leads, result, fetch,
                   raised, args, text_vars,
                   validators, instantly>>

\* One iteration in which process_lead raises: the k-th remote search of
\* the lead is answered with well-formed JSON whose results are not a list
\* of candidate objects, the adapter returns them and the category raises
\* on reading them.  No update is issued.
ProcessNextRaises ==
    /\ pc = "loop" /\ idx <= Len(leads)
    /\ lead' = leads[idx]
    /\ LET airtable == airtable_configured(airtable_token, airtable_base)
           l == leads[idx]
       IN  \E e \in EmailResponses(l, BatchResponses(LeadContacts)) :
           \E p \in PhoneResponses(l, e, BatchResponses(LeadContacts)) :
           \E k \in DOMAIN process_lead_calls(l, airtable, e, p) :
              calls' = SubSeq(process_lead_calls(l, airtable, e, p), 1, k)
    /\ env' = NoEnv
    /\ contact_check' = NoCheck /\ deal_check' = NoCheck
    /\ alohacamp_check' = NoCheck /\ update_data' = <<>>
    /\ raised' = raised + 1
    /\ errors' = count_error(errors, "raised")
    /\ sleeps' = sleep_after(sleeps, "raised")
    /\ idx' = next_idx(idx, "raised")
    /\ UNCHANGED <<airtable_token, airtable_base, pc, store, leads,
                   updated_count, writes, result, fetch, args, text_vars,
                   validators, instantly>>

\* An iteration that does not end: the k-th remote search of the lead is
\* never answered.  requests.post and session.get are called without a
\* timeout, so the call does not return.
RemoteCallHangs ==
    /\ pc = "loop" /\ idx <= Len(leads)
    /\ lead' = leads[idx]
    /\ LET airtable == airtable_configured(airtable_token, airtable_base)
           l == leads[idx]
       IN  \E e \in EmailResponses(l, BatchResponses(LeadContacts)) :
           \E p \in PhoneResponses(l, e, BatchResponses(LeadContacts)) :
           \E k \in DOMAIN process_lead_calls(l, airtable, e, p) :
              calls' = SubSeq(process_lead_calls(l, airtable, e, p), 1, k)
    /\ env' = NoEnv
    /\ contact_check' = NoCheck /\ deal_check' = NoCheck
    /\ alohacamp_check' = NoCheck /\ update_data' = <<>>
    /\ pc' = "blocked"
    /\ UNCHANGED <<airtable_token, airtable_base, batch_vars, text_vars,
                   validators, instantly>>

\* The loop is over: process_batch returns its summary and its locals are
\* gone.
FinishBatch ==
    /\ pc = "loop" /\ idx > Len(leads)
    /\ result' = summary(leads, updated_count, errors)
    /\ pc' = "idle"
    /\ leads' = <<>> /\ idx' = 0
    /\ updated_count' = 0 /\ errors' = 0 /\ writes' = <<>>
    /\ raised' = 0 /\ sleeps' = 0
    /\ NoLeadYet
    /\ UNCHANGED <<airtable_token, airtable_base, store, fetch, args,
                   text_vars,
                   validators, instantly>>

\* The run is stopped from outside (the process is interrupted or killed)
\* between two leads or while a call is blocked: nothing is returned and
\* the locals are gone.
Cancel ==
    /\ pc \in {"loop", "blocked"}
    /\ result' = <<>>
    /\ pc' = "idle"
    /\ leads' = <<>> /\ idx' = 0
    /\ updated_count' = 0 /\ errors' = 0 /\ writes' = <<>>
    /\ raised' = 0 /\ sleeps' = 0
    /\ NoLeadYet
    /\ UNCHANGED <<airtable_token, airtable_base, store, fetch, args,
                   text_vars,
                   validators, instantly>>

\* The steps of the loop that the interpreter takes by itself.
Loop == ProcessNext \/ ProcessNextRaises \/ FinishBatch

Next == StartBatch \/ ProcessNext \/ ProcessNextRaises \/ RemoteCallHangs
           \/ FinishBatch \/ Cancel

Spec == Init /\ [][Next]_vars

\* The interpreter keeps running the loop while a step of it is possible.
SpecFair == Spec /\ WF_vars(Loop)

---------------------------------------------------------------------------
(* fetch_leads_batch applied to every store of the model, with and without *)
(* decisions, every batch size and every start id                          *)

\* Rows with and without a decision, and a row without an email.
FetchRows(i) ==
    {FullLead(i) @@ [zerobounce_status |-> z, hubspot_duplicate_check_2 |-> h] :
        z \in ValidationStatuses, h \in {NULL, "unique", "duplicate"}}
    \cup
    {[NoEmailLead(i) EXCEPT !.email = e] @@
         [zerobounce_status |-> "valid", hubspot_duplicate_check_2 |-> NULL] :
        e \in {"", NULL}}

InitFetch ==
    /\ airtable_token = NULL /\ airtable_base = NULL
    /\ lead = NoLead /\ env = NoEnv /\ calls = <<>>
    /\ contact_check = NoCheck /\ deal_check = NoCheck
    /\ alohacamp_check = NoCheck /\ update_data = <<>>
    /\ pc = "ready"
    /\ store \in {st \in [1..NumLeads ->
                              UNION {FetchRows(i) : i \in 1..NumLeads}] :
                     \A i \in 1..NumLeads : st[i].id = i}
    /\ args \in [batch_size : 1..MaxBatch, start_id : 0..NumLeads]
    /\ leads = <<>> /\ idx = 0
    /\ updated_count = 0 /\ errors = 0 /\ writes = <<>> /\ result = <<>>
    /\ fetch = "not_run" /\ raised = 0 /\ sleeps = 0
    /\ NoText /\ NoValidators /\ NoInstantly

CallFetch ==
    /\ pc = "ready"
    /\ \E ok \in BOOLEAN :
          /\ leads' = fetch_leads_batch(store, args.batch_size, args.start_id,
                                        ok)
          /\ fetch' = IF ok THEN "returned" ELSE "raised"
    /\ pc' = "returned_fetch"
    /\ UNCHANGED <<airtable_token, airtable_base, lead_vars, store, idx,
                   updated_count, errors, writes, result, raised, sleeps,
                   args, text_vars,
                   validators, instantly>>

NextFetch == CallFetch

SpecFetch == InitFetch /\ [][NextFetch]_vars


---------------------------------------------------------------------------
(* normalize_text.  A text is a sequence of characters; a character is     *)
(* named by a string.  The tables give, for the characters of the model,   *)
(* what str.isspace, str.lower, unicodedata.normalize("NFKD", .) and       *)
(* unicodedata.combining give for them.                                    *)

\* The characters of the arguments: ASCII letters, a digit, kinds of white
\* space, punctuation, an accented capital (U+00C9), a combining mark
\* (U+0301), a ligature (U+FB01), a letter-like symbol (U+210B), a spacing
\* diacritic (U+00A8), a capital whose lower case is two characters (U+0130).
Chars == {"a", "B", "1", " ", "TAB", "NBSP", "-", "E_ACUTE",
          "COMBINING_ACUTE", "fi_LIGATURE", "SCRIPT_H", "DIAERESIS", "I_DOT"}

\* The arguments: texts, None and a number.
Values == {[type |-> "str", chars |-> t] : t \in SeqUpTo(Chars, MaxTextLen)}
          \cup {[type |-> "NoneType"], [type |-> "int"]}

\* str.isspace, which is also what \s matches in a str pattern.
isspace(c) == c \in {" ", "TAB", "NBSP"}

\* str.lower of one character.
lower_of(c) ==
    CASE c = "B" -> <<"b">>
      [] c = "E_ACUTE" -> <<"e_acute">>
      [] c = "I_DOT" -> <<"i", "COMBINING_DOT">>
      [] OTHER -> <<c>>

\* unicodedata.normalize("NFKD", c) of one character.
nfkd_of(c) ==
    CASE c = "e_acute" -> <<"e", "COMBINING_ACUTE">>
      [] c = "NBSP" -> <<" ">>
      [] c = "fi_LIGATURE" -> <<"f", "i">>
      [] c = "SCRIPT_H" -> <<"H">>
      [] c = "DIAERESIS" -> <<" ", "COMBINING_DIAERESIS">>
      [] OTHER -> <<c>>

\* unicodedata.combining(c) is not 0.
combining(c) ==
    c \in {"COMBINING_ACUTE", "COMBINING_DIAERESIS", "COMBINING_DOT"}

\* The characters of the class [a-z0-9].
alnum(c) == c \in {"a", "b", "e", "f", "i", "1"}

\* str.lower()
RECURSIVE str_lower(_)
str_lower(t) ==
    IF t = <<>> THEN <<>> ELSE lower_of(Head(t)) \o str_lower(Tail(t))

\* unicodedata.normalize("NFKD", s)
RECURSIVE normalize_NFKD(_)
normalize_NFKD(t) ==
    IF t = <<>> THEN <<>> ELSE nfkd_of(Head(t)) \o normalize_NFKD(Tail(t))

RECURSIVE lstrip(_)
lstrip(t) ==
    IF t # <<>> /\ isspace(Head(t)) THEN lstrip(Tail(t)) ELSE t

RECURSIVE rstrip(_)
rstrip(t) ==
    IF t # <<>> /\ isspace(t[Len(t)]) THEN rstrip(SubSeq(t, 1, Len(t) - 1))
    ELSE t

\* str.strip()
strip(t) == rstrip(lstrip(t))

\* `re.sub(r"[^a-z0-9\s]", " ", s)`
sub_other(t) ==
    [k \in DOMAIN t |-> IF alnum(t[k]) \/ isspace(t[k]) THEN t[k] ELSE " "]

\* `re.sub(r"\s+", " ", s)`
RECURSIVE sub_spaces(_)
sub_spaces(t) ==
    IF t = <<>> THEN <<>>
    ELSE IF isspace(Head(t)) THEN <<" ">> \o sub_spaces(lstrip(t))
    ELSE <<Head(t)>> \o sub_spaces(Tail(t))

\* Faulty variant of normalize_text: without the last .strip().
normalize_text_unstripped(v) ==
    IF v.type # "str" THEN <<>>
    ELSE LET s1 == str_lower(strip(v.chars))
             s2 == normalize_NFKD(s1)
             s3 == SelectSeq(s2, LAMBDA c : ~combining(c))
         IN  sub_spaces(sub_other(s3))

\* normalize_text: the text returned for the argument v.
normalize_text(v) ==
    IF v.type # "str" THEN <<>>
    ELSE LET s1 == str_lower(strip(v.chars))
             s2 == normalize_NFKD(s1)
             s3 == SelectSeq(s2, LAMBDA c : ~combining(c))
             s4 == sub_other(s3)
         IN  strip(sub_spaces(s4))

InitText ==
    /\ airtable_token = NULL /\ airtable_base = NULL
    /\ lead = NoLead /\ env = NoEnv /\ calls = <<>>
    /\ contact_check = NoCheck /\ deal_check = NoCheck
    /\ alohacamp_check = NoCheck /\ update_data = <<>>
    /\ pc = "ready"
    /\ NoBatch
    /\ value \in Values /\ normalized = NULL
    /\ NoValidators /\ NoInstantly

CallNormalizeText ==
    /\ pc = "ready"
    /\ normalized' = normalize_text(value)
    /\ pc' = "returned_text"
    /\ UNCHANGED <<airtable_token, airtable_base, lead_vars, batch_vars,
                   value, validators, instantly>>

NextText == CallNormalizeText

SpecText == InitText /\ [][NextText]_vars

---------------------------------------------------------------------------
(* The ZeroBounce validator (zerobounce_validator.py) and the duplicate     *)
(* checker working on one contacts_grid_view                                *)

\* Python's True and False in a column that can also be null.
True == "True"
False == "False"

\* The validator runs that can be in progress at the same time.
ValidatorRuns == {"A", "B"}

\* The client-side filter of ZeroBounceValidator.fetch_leads_batch.
validator_eligible(row) ==
    /\ Truthy(row.email)
    /\ ~Truthy(row.zerobounce_status)
    /\ row.humanfit # False
    /\ ~(row.added_to_instantly = True /\ row.humanfit = NULL)

\* ZeroBounceValidator.fetch_leads_batch: the country, when one is given,
\* is a filter of the query and so applies before the limit.
validator_fetch_leads_batch(st, batch_size, country_priority, ok) ==
    IF ~ok THEN <<>>
    ELSE LET ids == IF Truthy(country_priority)
                    THEN {i \in DOMAIN st : st[i].country = country_priority}
                    ELSE DOMAIN st
             all_leads == Take(ordered(st, ids), batch_size * FetchFactor)
         IN  Take(SelectSeq(all_leads, validator_eligible), batch_size)

\* get_next_priority_country: the country of the first active priority
\* with unassigned leads, in the order of the priority levels (the sort is
\* stable), NULL when there is none.
get_next_priority_country(priorities) ==
    LET open == {i \in DOMAIN priorities :
                    /\ priorities[i].is_active
                    /\ priorities[i].unassigned > 0}
    IN  IF open = {} THEN NULL
        ELSE priorities[CHOOSE i \in open : \A j \in open :
                 \/ priorities[i].priority_level < priorities[j].priority_level
                 \/ /\ priorities[i].priority_level =
                           priorities[j].priority_level
                    /\ i <= j].country

\* The priorities get_priority_config returns: those of
\* _get_fallback_priorities when the service fails, or an answer of the
\* service.
PriorityConfigs ==
    {<<[country |-> "pl", priority_level |-> 1, is_active |-> TRUE,
        unassigned |-> 3187],
       [country |-> "de", priority_level |-> 2, is_active |-> TRUE,
        unassigned |-> 1348],
       [country |-> "es", priority_level |-> 3, is_active |-> TRUE,
        unassigned |-> 470]>>,
     <<[country |-> "pl", priority_level |-> 2, is_active |-> TRUE,
        unassigned |-> 5],
       [country |-> "de", priority_level |-> 1, is_active |-> TRUE,
        unassigned |-> 7]>>,
     <<[country |-> "pl", priority_level |-> 1, is_active |-> FALSE,
        unassigned |-> 5],
       [country |-> "de", priority_level |-> 2, is_active |-> TRUE,
        unassigned |-> 0]>>}

\* The countries process_batch is called with: none, or that of a
\* priority.
ValidatorCountries == {NULL, "pl", "de"}

\* Faulty variant of effective_status: without the role_based override.
effective_status_as_reported(validation_status, sub_status) ==
    IF validation_status = "invalid" \/ validation_status = "catch-all"
    THEN "invalid"
    ELSE validation_status

\* `effective_status` of update_validation_results.
effective_status(validation_status, sub_status) ==
    IF validation_status = "do_not_mail" /\ sub_status = "role_based"
    THEN "valid"
    ELSE IF validation_status = "invalid" \/ validation_status = "catch-all"
    THEN "invalid"
    ELSE validation_status

\* `validation_error` of update_validation_results.
validation_error(validation_status, sub_status) ==
    IF validation_status = "do_not_mail" /\ sub_status = "role_based"
    THEN ""
    ELSE IF validation_status = "invalid" \/ validation_status = "catch-all"
    THEN (IF Truthy(sub_status) THEN sub_status ELSE validation_status)
    ELSE sub_status

\* `update_data` of update_validation_results for one item of the answer.
validation_update(item) ==
    [zerobounce_status |-> effective_status(item.status, item.sub_status),
     zerobounce_sub_status |-> validation_error(item.status, item.sub_status),
     zerobounce_validated_at |-> now,
     zerobounce_processed |-> False]

\* `hs_eligible` of audit_workflow.py: the leads the duplicate checker
\* should fetch.
hs_eligible(row) ==
    /\ row.zerobounce_status = "valid"
    /\ row.zerobounce_processed = True
    /\ row.hubspot_check_2_completed \in {NULL, False}
    /\ Truthy(row.email)

\* The items ZeroBounce answers with for one address; a sub_status is a
\* string, empty or not, or null.
ValidationItems ==
    {[status |-> "valid", sub_status |-> ""],
     [status |-> "invalid", sub_status |-> "mailbox_not_found"],
     [status |-> "invalid", sub_status |-> NULL],
     [status |-> "catch-all", sub_status |-> ""],
     [status |-> "do_not_mail", sub_status |-> "role_based"],
     [status |-> "do_not_mail", sub_status |-> "global_suppression"]}

\* `email_results` for the answer of validate_emails_batch to the addresses
\* of a batch: an item for each address the answer covers.
ValidationResults(emails) ==
    UNION {[covered -> ValidationItems] : covered \in SUBSET emails}

\* A row nobody has validated or decided yet.
NewRow(i, email, country, humanfit, added_to_instantly) ==
    [EmailOnlyLead(i) EXCEPT !.email = email, !.country = country] @@
    [zerobounce_status |-> NULL, zerobounce_sub_status |-> NULL,
     zerobounce_validated_at |-> NULL, zerobounce_processed |-> NULL,
     hubspot_duplicate_check_2 |-> NULL, hubspot_check_2_completed |-> NULL,
     humanfit |-> humanfit, added_to_instantly |-> added_to_instantly,
     instantly_campaign_id |-> NULL]

NoRun == [pc |-> "idle", leads |-> <<>>, validation_results |-> <<>>, k |-> 0]

\* mark_instantly_leads_in_supabase (merge_instantly_leads.py) is not
\* running.
NoMark == [pc |-> "idle", batch_emails |-> {}, email_to_campaign |-> <<>>,
           total_updated |-> 0]

\* `email_to_campaign` of the frames the script is run with: the campaign
\* id of each address of the Instantly export.
InstantlyFrames ==
    UNION {[emails -> {"c-1"}] :
              emails \in (SUBSET {"a@x.com", "z@x.com"}) \ {{}}}

\* No run of the validator or of the checker has started on the store.
InitStore(stores) ==
    /\ airtable_token = "pat" /\ airtable_base = NULL
    /\ lead = NoLead /\ env = NoEnv /\ calls = <<>>
    /\ contact_check = NoCheck /\ deal_check = NoCheck
    /\ alohacamp_check = NoCheck /\ update_data = <<>>
    /\ pc = "idle"
    /\ store \in stores
    /\ leads = <<>> /\ idx = 0
    /\ updated_count = 0 /\ errors = 0 /\ writes = <<>> /\ result = <<>>
    /\ fetch = "not_run" /\ raised = 0 /\ sleeps = 0 /\ args = <<>>
    /\ NoText
    /\ validators = [v \in ValidatorRuns |-> NoRun]
    /\ instantly = NoMark

\* Two leads fresh from the import, of two countries; the second may be
\* excluded from validation by its humanfit and added_to_instantly columns.
InitValidator ==
    InitStore({<<NewRow(1, "a@x.com", "pl", NULL, NULL),
                 NewRow(2, "b@x.com", "de", h, a)>> :
                  h \in {NULL, False}, a \in {NULL, True}})

\* One lead fresh from the import.
InitPipeline == InitStore({<<NewRow(1, "a@x.com", "pl", NULL, NULL)>>})

\* The locals of process_batch after the fetch: without leads the run is
\* over.
fetched_run(fetched) ==
    IF fetched = <<>> THEN NoRun
    ELSE [NoRun EXCEPT !.pc = "mark", !.leads = fetched]

\* ZeroBounceValidator.process_batch(batch_size, country_priority) up to the
\* fetch: without leads, or when the query fails, the run is over.
ValidatorFetch(v) ==
    /\ validators[v].pc = "idle"
    /\ \E batch_size \in 1..MaxBatch, country_priority \in ValidatorCountries,
          ok \in BOOLEAN :
          validators' =
              [validators EXCEPT ![v] =
                  fetched_run(validator_fetch_leads_batch(
                                  store, batch_size, country_priority, ok))]
    /\ UNCHANGED <<airtable_token, airtable_base, lead_vars, pc, batch_vars,
                   text_vars, instantly>>

\* ZeroBounceValidator.process_by_priority, as main() calls it, up to the
\* fetch: without a country to process the run is over before any query,
\* otherwise process_batch is called for the next country.
ValidatorFetchByPriority(v) ==
    /\ validators[v].pc = "idle"
    /\ \E batch_size \in 1..MaxBatch, priorities \in PriorityConfigs,
          ok \in BOOLEAN :
          LET next_country == get_next_priority_country(priorities)
          IN  validators' =
                  [validators EXCEPT ![v] =
                      IF next_country = NULL THEN NoRun
                      ELSE fetched_run(validator_fetch_leads_batch(
                                           store, batch_size, next_country,
                                           ok))]
    /\ UNCHANGED <<airtable_token, airtable_base, lead_vars, pc, batch_vars,
                   text_vars, instantly>>

\* mark_leads_as_processing: one update of the fetched ids; when it fails
\* the run is over.
ValidatorMark(v) ==
    /\ validators[v].pc = "mark"
    /\ \E ok \in BOOLEAN :
          LET lead_ids == {validators[v].leads[j].id :
                              j \in DOMAIN validators[v].leads}
          IN  IF ok
              THEN /\ store' = [i \in DOMAIN store |->
                                   IF i \in lead_ids
                                   THEN [zerobounce_processed |-> False] @@
                                        store[i]
                                   ELSE store[i]]
                   /\ validators' = [validators EXCEPT ![v].pc = "validate"]
              ELSE /\ store' = store
                   /\ validators' = [validators EXCEPT ![v] = NoRun]
    /\ UNCHANGED <<airtable_token, airtable_base, lead_vars, pc, leads, idx,
                   updated_count, errors, writes, result, fetch, raised,
                   sleeps, args, text_vars, instantly>>

\* validate_emails_batch: ZeroBounce answers for the addresses of the
\* batch, or the request fails and update_validation_results stores
\* nothing.
ValidatorValidate(v) ==
    /\ validators[v].pc = "validate"
    /\ LET emails == {validators[v].leads[j].email :
                         j \in DOMAIN validators[v].leads}
       IN  \/ \E r \in ValidationResults(emails) :
                 validators' = [validators EXCEPT
                                   ![v].pc = "update",
                                   ![v].validation_results = r,
                                   ![v].k = 1]
           \/ validators' = [validators EXCEPT ![v] = NoRun]
    /\ UNCHANGED <<airtable_token, airtable_base, lead_vars, pc, batch_vars,
                   text_vars, instantly>>

\* One iteration of `for lead in leads:` of update_validation_results: the
\* update of the row by id, which can fail; nothing is written for an
\* address the answer does not cover.
ValidatorUpdate(v) ==
    /\ validators[v].pc = "update"
    /\ validators[v].k <= Len(validators[v].leads)
    /\ LET l == validators[v].leads[validators[v].k]
           email_results == validators[v].validation_results
       IN  \E ok \in BOOLEAN :
              store' = IF /\ l.email \in DOMAIN email_results
                          /\ ok /\ l.id \in DOMAIN store
                       THEN [store EXCEPT ![l.id] =
                                validation_update(email_results[l.email]) @@ @]
                       ELSE store
    /\ validators' = [validators EXCEPT ![v].k = @ + 1]
    /\ UNCHANGED <<airtable_token, airtable_base, lead_vars, pc, leads, idx,
                   updated_count, errors, writes, result, fetch, raised,
                   sleeps, args, text_vars, instantly>>

\* update_validation_results and process_batch return.
ValidatorReturn(v) ==
    /\ validators[v].pc = "update"
    /\ validators[v].k > Len(validators[v].leads)
    /\ validators' = [validators EXCEPT ![v] = NoRun]
    /\ UNCHANGED <<airtable_token, airtable_base, lead_vars, pc, batch_vars,
                   text_vars, instantly>>

NextValidator ==
    \E v \in ValidatorRuns :
        \/ ValidatorFetch(v)
        \/ ValidatorFetchByPriority(v)
        \/ ValidatorMark(v)
        \/ ValidatorValidate(v)
        \/ ValidatorUpdate(v)
        \/ ValidatorReturn(v)

\* Runs of the validator alone, overlapping or not.
SpecValidator == InitValidator /\ [][NextValidator]_vars

\* mark_instantly_leads_in_supabase(supabase, instantly_df) is called.
MarkInstantlyStart ==
    /\ instantly.pc = "idle"
    /\ \E frame \in InstantlyFrames :
          instantly' = [pc |-> "update", batch_emails |-> DOMAIN frame,
                        email_to_campaign |-> frame, total_updated |-> 0]
    /\ UNCHANGED <<airtable_token, airtable_base, lead_vars, pc, batch_vars,
                   text_vars, validators>>

\* One iteration of `for email in batch_emails:`: the rows with the email
\* are marked and counted; an update that raises ends the batch.
MarkInstantlyUpdate ==
    /\ instantly.pc = "update" /\ instantly.batch_emails # {}
    /\ \E email \in instantly.batch_emails, ok \in BOOLEAN :
          LET marked == {i \in DOMAIN store : store[i].email = email}
              mark == [added_to_instantly |-> True,
                       instantly_campaign_id |->
                           instantly.email_to_campaign[email]]
          IN  IF ok
              THEN /\ store' = [i \in DOMAIN store |->
                                   IF i \in marked THEN mark @@ store[i]
                                   ELSE store[i]]
                   /\ instantly' =
                          [instantly EXCEPT
                              !.batch_emails = @ \ {email},
                              !.total_updated = @ + Cardinality(marked)]
              ELSE /\ store' = store
                   /\ instantly' = [instantly EXCEPT !.batch_emails = {}]
    /\ UNCHANGED <<airtable_token, airtable_base, lead_vars, pc, leads, idx,
                   updated_count, errors, writes, result, fetch, raised,
                   sleeps, args, text_vars, validators>>

\* `return total_updated`
MarkInstantlyReturn ==
    /\ instantly.pc = "update" /\ instantly.batch_emails = {}
    /\ instantly' = [NoMark EXCEPT !.total_updated = instantly.total_updated]
    /\ UNCHANGED <<airtable_token, airtable_base, lead_vars, pc, batch_vars,
                   text_vars, validators>>

NextInstantly ==
    MarkInstantlyStart \/ MarkInstantlyUpdate \/ MarkInstantlyReturn

NextPipeline == NextValidator \/ Next \/ NextInstantly

\* Runs of the validator and runs of the duplicate checker on one store.
SpecPipeline == InitPipeline /\ [][NextPipeline]_vars

---------------------------------------------------------------------------
(* process_batch(1) called again and again, without a start identifier and  *)
(* without any failure, on a store with more rows than one fetch reads      *)

\* One row more than the fetch of a batch of one lead reads.
RepeatRows == 1 * FetchFactor + 1

\* The answers of a remote search that did not fail.
OkResponses(Pool) == {r \in BatchResponses(Pool) : r.kind = "ok"}

\* Rows of the repeated runs: validated as invalid, valid and not decided,
\* valid and decided by an earlier run.
InvalidRow(i) ==
    EmailOnlyLead(i) @@
    [zerobounce_status |-> "invalid", hubspot_duplicate_check_2 |-> NULL]
ValidRow(i) ==
    EmailOnlyLead(i) @@
    [zerobounce_status |-> "valid", hubspot_duplicate_check_2 |-> NULL]
DecidedRow(i) ==
    process_lead(EmailOnlyLead(i), FALSE, [kind |-> "ok", results |-> <<>>],
                 NoRequest, NoRequest, NoRequest, NoRequest) @@ ValidRow(i)

InitRepeat ==
    /\ airtable_token = "pat" /\ airtable_base = NULL
    /\ lead = NoLead /\ env = NoEnv /\ calls = <<>>
    /\ contact_check = NoCheck /\ deal_check = NoCheck
    /\ alohacamp_check = NoCheck /\ update_data = <<>>
    /\ pc = "idle"
    /\ \E first \in {"invalid", "valid", "decided"},
          middle \in [2..(RepeatRows - 1) -> {"invalid", "decided"}],
          last \in {"invalid", "valid"} :
          store = [i \in 1..RepeatRows |->
                      LET state == IF i = 1 THEN first
                                   ELSE IF i = RepeatRows THEN last
                                   ELSE middle[i]
                      IN  IF state = "invalid" THEN InvalidRow(i)
                          ELSE IF state = "valid" THEN ValidRow(i)
                          ELSE DecidedRow(i)]
    /\ leads = <<>> /\ idx = 0
    /\ updated_count = 0 /\ errors = 0 /\ writes = <<>> /\ result = <<>>
    /\ fetch = "not_run" /\ raised = 0 /\ sleeps = 0 /\ args = <<>>
    /\ NoText /\ NoValidators /\ NoInstantly

\* process_batch(1): the fetch of a batch of one lead from the start of the
\* table, which does not fail.
RepeatStart ==
    /\ StartBatch
    /\ fetch' = "returned"
    /\ leads' = fetch_leads_batch(store, 1, 0, TRUE)

\* An iteration in which no remote search fails and the update affects the
\* row.
RepeatProcess ==
    /\ ProcessNext
    /\ \E e \in OkResponses(LeadContacts) :
          contact_check' =
              check_contact_duplicates(leads[idx], e, NoRequest, NoRequest)
    /\ writes'[Len(writes')].outcome = "updated"

NextRepeat == RepeatStart \/ RepeatProcess \/ FinishBatch

\* The runs follow one another for ever.
SpecRepeat == InitRepeat /\ [][NextRepeat]_vars /\ WF_vars(NextRepeat)

---------------------------------------------------------------------------
(* Properties *)

\* The candidates a response yields: those of a successful answer.
Yield(response) == IF response.kind = "ok" THEN response.results ELSE <<>>

Called(method) == \E i \in DOMAIN calls : calls[i] = method

ContactKeys == {"hubspot_contact_id_2", "hubspot_contact_email_2",
                "hubspot_contact_phone_2", "hubspot_contact_name_2",
                "hubspot_contact_match_type_2"}
DealKeys == {"hubspot_deal_id_2", "hubspot_deal_name_2",
             "hubspot_deal_score_2"}
DirectoryKeys == {"alohacamp_match_id_2", "alohacamp_match_name_2",
                  "alohacamp_score_2"}

\* C1: the verdict of process_lead is chosen top to bottom, first true
\* branch wins: contact found => (duplicate, contact_duplicate, follow-up),
\* else deal found => (duplicate, deal_exists, no follow-up), else directory
\* found => (duplicate, alohacamp_exists, no follow-up), else (unique,
\* new_lead, follow-up).
C1_VerdictPriority ==
    pc = "returned" =>
        LET got == <<update_data.hubspot_duplicate_check_2,
                     update_data.deal_creation_reason,
                     update_data.needs_hubspot_deal>>
        IN  IF contact_check.found
            THEN got = <<"duplicate", "contact_duplicate", TRUE>>
            ELSE IF deal_check.found
            THEN got = <<"duplicate", "deal_exists", FALSE>>
            ELSE IF alohacamp_check.found
            THEN got = <<"duplicate", "alohacamp_exists", FALSE>>
            ELSE got = <<"unique", "new_lead", TRUE>>

\* C1 witness: all three categories found a match and the contact decides.
C1_Witness ==
    /\ pc = "returned"
    /\ contact_check.found /\ deal_check.found /\ alohacamp_check.found
    /\ update_data.deal_creation_reason = "contact_duplicate"
    /\ update_data.needs_hubspot_deal = TRUE

\* C3: the decision carries the linkage fields of exactly the categories
\* that found a match, whichever branch gave the reason.
C3_LinkageOfEveryMatch ==
    pc = "returned" =>
        /\ IF contact_check.found
           THEN /\ ContactKeys \subseteq DOMAIN update_data
                /\ update_data.hubspot_contact_id_2 = contact_check.contact_id
                /\ update_data.hubspot_contact_email_2 =
                       contact_check.contact_email
                /\ update_data.hubspot_contact_phone_2 =
                       contact_check.contact_phone
                /\ update_data.hubspot_contact_name_2 =
                       contact_check.contact_name
                /\ update_data.hubspot_contact_match_type_2 =
                       contact_check.match_type
           ELSE ContactKeys \cap DOMAIN update_data = {}
        /\ IF deal_check.found
           THEN /\ DealKeys \subseteq DOMAIN update_data
                /\ update_data.hubspot_deal_id_2 = deal_check.deal_id
                /\ update_data.hubspot_deal_name_2 = deal_check.deal_name
                /\ update_data.hubspot_deal_score_2 = deal_check.deal_score
           ELSE DealKeys \cap DOMAIN update_data = {}
        /\ IF alohacamp_check.found
           THEN /\ DirectoryKeys \subseteq DOMAIN update_data
                /\ update_data.alohacamp_match_id_2 = alohacamp_check.match_id
                /\ update_data.alohacamp_match_name_2 =
                       alohacamp_check.match_name
                /\ update_data.alohacamp_score_2 = alohacamp_check.score
           ELSE DirectoryKeys \cap DOMAIN update_data = {}

\* C3 witness: a contact match and a deal match, no directory match: the
\* reason is contact_duplicate and the deal id and score are carried.
C3_Witness ==
    /\ pc = "returned"
    /\ contact_check.found /\ deal_check.found /\ ~alohacamp_check.found
    /\ update_data.deal_creation_reason = "contact_duplicate"
    /\ update_data.hubspot_deal_id_2 = 1
    /\ update_data.hubspot_deal_score_2 = 70

\* C4: every decision records the directory-found state as true or false,
\* and it is true exactly when the directory category found a match.
C4_DirectoryStateRecorded ==
    pc = "returned" =>
        /\ "alohacamp_exists_2" \in DOMAIN update_data
        /\ update_data.alohacamp_exists_2 \in BOOLEAN
        /\ update_data.alohacamp_exists_2 = alohacamp_check.found

\* C4 witness: directory unconfigured, lead without a property name, and
\* the state is recorded as false.
C4_Witness ==
    /\ pc = "returned"
    /\ airtable_token = NULL /\ lead.property_name = ""
    /\ "alohacamp_exists_2" \in DOMAIN update_data
    /\ update_data.alohacamp_exists_2 = FALSE

\* C2: every decision process_batch has written to the store has status
\* unique or duplicate; unique goes with reason new_lead and follow-up true,
\* duplicate with one of the three duplicate reasons.
C2_StoredDecisions ==
    \A i \in DOMAIN store :
        store[i].hubspot_duplicate_check_2 # NULL =>
            /\ store[i].hubspot_duplicate_check_2 \in {"unique", "duplicate"}
            /\ store[i].hubspot_duplicate_check_2 = "unique" =>
                   /\ store[i].deal_creation_reason = "new_lead"
                   /\ store[i].needs_hubspot_deal = TRUE
            /\ store[i].hubspot_duplicate_check_2 = "duplicate" =>
                   store[i].deal_creation_reason \in
                       {"contact_duplicate", "deal_exists", "alohacamp_exists"}

\* C2 witness: one batch has written a unique decision for one lead and a
\* duplicate decision by a directory match for another.
C2_Witness ==
    /\ Len(writes) = 2
    /\ \E i, j \in DOMAIN store :
          /\ store[i].hubspot_duplicate_check_2 = "unique"
          /\ store[j].hubspot_duplicate_check_2 = "duplicate"
          /\ store[j].deal_creation_reason = "alohacamp_exists"

\* C5: the contact category tries email, phone, name in this order and
\* stops at the first strategy with a result: a non-empty email result is a
\* match on its first result and no other search is invoked; the phone
\* search is invoked only after an empty email result and with a normalised
\* phone; the name search is invoked only after empty email and phone
\* results and with a first or a last name.
C5_ContactCascade ==
    pc = "returned" =>
        LET by_email == Yield(env.email)
            by_phone == Yield(env.phone)
        IN  /\ calls \in {<<"search_contacts_by_email">>,
                          <<"search_contacts_by_email",
                            "search_contacts_by_phone">>,
                          <<"search_contacts_by_email",
                            "search_contacts_by_name">>,
                          <<"search_contacts_by_email",
                            "search_contacts_by_phone",
                            "search_contacts_by_name">>}
            /\ by_email # <<>> =>
                   /\ calls = <<"search_contacts_by_email">>
                   /\ contact_check.found
                   /\ contact_check.match_type = "email"
                   /\ contact_check.contact_id = by_email[1].id
            /\ Called("search_contacts_by_phone") =>
                   /\ by_email = <<>>
                   /\ normalize_phone(lead.phone, lead.country) # NULL
            /\ Called("search_contacts_by_name") =>
                   /\ by_email = <<>> /\ by_phone = <<>>
                   /\ lead.first_name # "" \/ lead.last_name # ""

\* C5 witness: the email search returned two contacts for a lead with a
\* valid phone and a name: the first is matched, nothing else is searched.
C5_Witness ==
    /\ pc = "returned"
    /\ Len(Yield(env.email)) = 2
    /\ lead.phone = "+48600100200" /\ lead.first_name = "Jan"
    /\ calls = <<"search_contacts_by_email">>
    /\ contact_check.found /\ contact_check.contact_id = 1

\* C6: the name strategy accepts the first candidate, in the order of the
\* search, whose first-name score or last-name score is at least 80, a part
\* scoring 0 when either side of it is empty; with no such candidate the
\* contact category yields not-found.
C6_NameThreshold ==
    (pc = "returned" /\ Called("search_contacts_by_name")) =>
        LET part(mine, theirs) == IF mine = "" \/ theirs.text = "" THEN 0
                                  ELSE theirs.ratio
            over(c) == \/ part(lead.first_name, c.properties.firstname) >= 80
                       \/ part(lead.last_name, c.properties.lastname) >= 80
            found == Yield(env.name)
            hits == {i \in DOMAIN found : over(found[i])}
        IN  IF hits = {}
            THEN contact_check = [found |-> FALSE]
            ELSE LET first == CHOOSE i \in hits : \A j \in hits : i <= j
                 IN  /\ contact_check.found
                     /\ contact_check.match_type = "name"
                     /\ contact_check.contact_id = found[first].id
                     /\ contact_check.contact_name =
                            full_name(found[first].properties.firstname.text,
                                      found[first].properties.lastname.text)

\* C6 witness: the first candidate scores 79 and 79, the second 79 on the
\* first name and 81 on the last name, and the second is accepted.
C6_Witness ==
    /\ pc = "returned" /\ Called("search_contacts_by_name")
    /\ lead.first_name = "Jan" /\ lead.last_name = "Kowalski"
    /\ Len(Yield(env.name)) = 2
    /\ Yield(env.name)[1].properties.firstname.ratio = 79
    /\ Yield(env.name)[1].properties.lastname.ratio = 79
    /\ Yield(env.name)[2].properties.firstname.ratio = 79
    /\ Yield(env.name)[2].properties.lastname.ratio = 81
    /\ contact_check.found /\ contact_check.match_type = "name"
    /\ contact_check.contact_id = 2

\* C7: the deal and the directory category find a match exactly when the
\* best candidate score is at least 70 (69: not found, 70: found), and a
\* found result records a score in 70..100.
C7_PropertyThreshold ==
    LET score(name) == Max(name.token_set_ratio,
                           name.partial_token_sort_ratio)
    IN  /\ pc = "returned_deal" =>
            LET found == Yield(env.deal)
                best == IF found = <<>> THEN 0
                        ELSE CHOOSE b \in 0..100 :
                            /\ \E i \in DOMAIN found :
                                   b = score(found[i].properties.dealname)
                            /\ \A i \in DOMAIN found :
                                   b >= score(found[i].properties.dealname)
            IN  /\ deal_check.found <=> best >= 70
                /\ best = 69 => ~deal_check.found
                /\ deal_check.found => /\ deal_check.deal_score = best
                                       /\ deal_check.deal_score \in 70..100
        /\ pc = "returned_alohacamp" =>
            LET found == Yield(env.directory)
                best == IF found = <<>> THEN 0
                        ELSE CHOOSE b \in 0..100 :
                            /\ \E i \in DOMAIN found :
                                   b = score(found[i].fields["Name"])
                            /\ \A i \in DOMAIN found :
                                   b >= score(found[i].fields["Name"])
            IN  /\ alohacamp_check.found <=> best >= 70
                /\ best = 69 => ~alohacamp_check.found
                /\ alohacamp_check.found =>
                       /\ alohacamp_check.score = best
                       /\ alohacamp_check.score \in 70..100

\* C7 witness: the best directory candidate scores exactly 70 (the other
\* 69) and the directory category finds it.
C7_Witness ==
    /\ pc = "returned_alohacamp"
    /\ Len(Yield(env.directory)) = 2
    /\ Yield(env.directory)[1].fields["Name"].token_set_ratio = 69
    /\ Yield(env.directory)[1].fields["Name"].partial_token_sort_ratio = 69
    /\ Yield(env.directory)[2].fields["Name"].token_set_ratio = 70
    /\ Yield(env.directory)[2].fields["Name"].partial_token_sort_ratio = 69
    /\ alohacamp_check.found /\ alohacamp_check.score = 70
    /\ alohacamp_check.match_id = 2

\* C8: the deal category selects the candidate with the highest score, and
\* among several with that score the first in the order of the search.
C8_FirstBestDeal ==
    (pc = "returned_deal" /\ deal_check.found) =>
        LET found == Yield(env.deal)
            score(i) == Max(found[i].properties.dealname.token_set_ratio,
                            found[i].properties.dealname.partial_token_sort_ratio)
            tops == {i \in DOMAIN found : \A j \in DOMAIN found :
                                              score(i) >= score(j)}
            first == CHOOSE i \in tops : \A j \in tops : i <= j
        IN  /\ deal_check.deal_id = found[first].id
            /\ deal_check.deal_score = score(first)

\* C8 witness: two deals share the highest score and the first is selected.
C8_Witness ==
    /\ pc = "returned_deal" /\ deal_check.found
    /\ Len(Yield(env.deal)) = 2
    /\ Yield(env.deal)[1].properties.dealname.token_set_ratio = 100
    /\ Yield(env.deal)[2].properties.dealname.partial_token_sort_ratio = 100
    /\ deal_check.deal_id = 1

\* C9: with the directory adapter unconfigured (token or base missing) the
\* directory category reports not-found and search_properties is never
\* invoked; this is no error: the only errors counted are failed updates
\* and exceptions raised out of process_lead by another category, and the
\* decision of an updated lead is in the store with the directory state
\* false.
C9_UnconfiguredDirectory ==
    (airtable_token = NULL \/ airtable_base = NULL) =>
        /\ alohacamp_check = [found |-> FALSE]
        /\ ~Called("search_properties")
        /\ errors = raised + Cardinality({k \in DOMAIN writes :
                                              writes[k].outcome = "error"})
        /\ \A k \in DOMAIN writes :
               writes[k].outcome = "updated" =>
                   /\ store[writes[k].id].hubspot_duplicate_check_2 # NULL
                   /\ store[writes[k].id].alohacamp_exists_2 = FALSE
                   /\ DirectoryKeys \cap DOMAIN store[writes[k].id] = {}

\* C9 witness: the default construction (neither token nor base), a lead
\* with a property name has been processed and its decision written
\* without an error.
C9_Witness ==
    /\ airtable_token = NULL /\ airtable_base = NULL
    /\ pc = "loop" /\ lead.id # 0 /\ lead.property_name # ""
    /\ Called("search_deals_by_property_name")
    /\ writes = <<[id |-> lead.id, outcome |-> "updated"]>>
    /\ errors = 0
    /\ store[lead.id].alohacamp_exists_2 = FALSE

\* C10: every adapter treats a network failure, a non-success status and a
\* body that is not JSON as an empty answer: the strategy yields nothing,
\* the methods invoked and the decision are those of the same lead with
\* empty answers in place of the failures, and a decision is produced.
C10_FailureIsEmptyAnswer ==
    pc = "returned" =>
        LET clean(r) == IF r \in Failures THEN [kind |-> "ok", results |-> <<>>]
                        ELSE r
            airtable == airtable_configured(airtable_token, airtable_base)
        IN  /\ env.email \in Failures =>
                   (contact_check.found => contact_check.match_type # "email")
            /\ env.phone \in Failures =>
                   (contact_check.found => contact_check.match_type = "name")
            /\ env.name \in Failures => ~contact_check.found
            /\ env.deal \in Failures => ~deal_check.found
            /\ env.directory \in Failures => ~alohacamp_check.found
            /\ calls = process_lead_calls(lead, airtable, clean(env.email),
                                          clean(env.phone))
            /\ update_data = process_lead(lead, airtable, clean(env.email),
                                          clean(env.phone), clean(env.name),
                                          clean(env.deal),
                                          clean(env.directory))
            /\ update_data.hubspot_duplicate_check_2 \in {"unique", "duplicate"}

\* C10 witness: all five requests failed, in the three ways, every adapter
\* was invoked and the lead is decided unique.
C10_Witness ==
    /\ pc = "returned"
    /\ env.email = [kind |-> "network_error"]
    /\ env.phone = [kind |-> "http_error"]
    /\ env.name = [kind |-> "bad_json"]
    /\ env.deal = [kind |-> "http_error"]
    /\ env.directory = [kind |-> "bad_json"]
    /\ calls = <<"search_contacts_by_email", "search_contacts_by_phone",
                 "search_contacts_by_name", "search_deals_by_property_name",
                 "search_properties">>
    /\ update_data.hubspot_duplicate_check_2 = "unique"

\* C11: no lead's processing blocks indefinitely: a remote call that gets
\* no answer is given up after a timeout and taken as an empty candidate
\* set, so that a batch that has started always comes to its end.
C11_BatchTerminates == (pc # "idle") ~> (pc = "idle")

\* C12: a failure while one lead is processed, an exception of process_lead
\* or of the update of the store, adds exactly one to the error count and
\* does not end the loop: the leads before the position of the loop have
\* all been processed, each one by an update or by a caught exception.
C12_FailureDoesNotAbort ==
    pc = "loop" =>
        /\ errors = raised + Cardinality({k \in DOMAIN writes :
                                              writes[k].outcome = "error"})
        /\ idx - 1 = Len(writes) + raised
        /\ idx <= Len(leads) + 1
        /\ updated_count + errors <= idx - 1

\* C12 witness: process_lead raised for the first of two leads, the error
\* was counted once and the second lead was processed and updated.
C12_Witness ==
    /\ pc = "loop" /\ Len(leads) = 2 /\ idx = 3
    /\ raised = 1 /\ errors = 1 /\ updated_count = 1
    /\ writes = <<[id |-> leads[2].id, outcome |-> "updated"]>>

\* C13: when the fetch of the eligible leads fails, process_batch returns
\* an error report at once: no lead is processed, no remote search is
\* invoked and no update is issued to the store.
C13_FetchFailureAborts ==
    fetch = "raised" =>
        /\ pc = "idle"
        /\ result = no_leads
        /\ leads = <<>> /\ lead = NoLead
        /\ calls = <<>> /\ writes = <<>>
        /\ updated_count = 0 /\ errors = 0

\* C13 witness: the fetch failed on a store that holds an eligible lead,
\* and the error is reported.
C13_Witness ==
    /\ fetch = "raised"
    /\ \E i \in DOMAIN store : eligible(store[i])
    /\ "error" \in DOMAIN result

\* C14 as stated: every call of process_batch returns the three counts,
\* with all three at 0 when no lead was fetched.
C14_AlwaysThreeCounts ==
    (pc = "idle" /\ DOMAIN result # {}) =>
        DOMAIN result = {"leads_processed", "updated_count", "errors"}

\* C14 amended: a call of process_batch that fetched at least one lead
\* returns the three counts (leads processed at least 1, updated plus
\* errors at most the leads processed); a call that fetched no lead, for
\* lack of an eligible lead or because the fetch failed, returns an error
\* report without counts.
C14_CountsOrErrorReport ==
    (pc = "idle" /\ DOMAIN result # {}) =>
        IF fetch = "raised" \/ "error" \in DOMAIN result
        THEN result = [error |-> "No leads found to process"]
        ELSE /\ DOMAIN result = {"leads_processed", "updated_count", "errors"}
             /\ result.leads_processed \in 1..MaxBatch
             /\ result.updated_count >= 0 /\ result.errors >= 0
             /\ result.updated_count + result.errors <= result.leads_processed

\* C14 witness: the fetch succeeded, no lead of the store is eligible, and
\* process_batch has returned the error report.
C14_Witness ==
    /\ pc = "idle" /\ fetch = "returned"
    /\ \A i \in DOMAIN store : ~eligible(store[i])
    /\ "error" \in DOMAIN result

\* C15: fetch_leads_batch(N) returns at most N leads, rows of the store in
\* ascending order of id, each with a non-empty email, validation status
\* valid and no decision recorded.
C15_FetchEligibleInOrder ==
    pc = "returned_fetch" =>
        /\ Len(leads) <= args.batch_size
        /\ \A k \in DOMAIN leads :
              /\ leads[k].id \in DOMAIN store
              /\ leads[k] = store[leads[k].id]
              /\ leads[k].email \notin {"", NULL}
              /\ leads[k].zerobounce_status = "valid"
              /\ leads[k].hubspot_duplicate_check_2 = NULL
        /\ \A j, k \in DOMAIN leads : j < k => leads[j].id < leads[k].id

\* C15 witness: two leads are eligible and one is asked for: the one with
\* the smaller id is returned.
C15_Witness ==
    /\ pc = "returned_fetch" /\ args.batch_size = 1 /\ args.start_id = 0
    /\ \A i \in DOMAIN store : eligible(store[i])
    /\ Cardinality(DOMAIN store) >= 2
    /\ Len(leads) = 1 /\ leads[1].id = 1

\* C16: stopping a run between two leads is safe.  In every step: a row
\* with a decision is not eligible and is not written again; a row changes
\* only by the update that records its decision, so a lead that was fetched
\* and not written (stop, exception of process_lead, failed update) keeps
\* its row and stays eligible; and the leads still to be processed are
\* undecided rows of the store.
C16_StopIsSafe ==
    [][ /\ \A i \in DOMAIN store :
              /\ store[i].hubspot_duplicate_check_2 # NULL =>
                     /\ ~eligible(store[i])
                     /\ i \in DOMAIN store' => store'[i] = store[i]
              /\ (i \in DOMAIN store' /\ store'[i] # store[i]) =>
                     /\ eligible(store[i])
                     /\ writes' = Append(writes, [id |-> i,
                                                  outcome |-> "updated"])
                     /\ store'[i].hubspot_duplicate_check_2 # NULL
        /\ \A k \in DOMAIN leads' :
              /\ leads'[k].hubspot_duplicate_check_2 = NULL
              /\ (k >= idx' /\ leads'[k].id \in DOMAIN store') =>
                     /\ store'[leads'[k].id] = leads'[k]
                     /\ eligible(store'[leads'[k].id])
      ]_vars

\* C16 witness: a run was stopped after the first of two fetched leads was
\* written: the first has its decision, the second is eligible as before.
C16_Witness ==
    /\ pc = "idle" /\ fetch = "returned" /\ DOMAIN result = {}
    /\ DOMAIN store = {1, 2}
    /\ store[1].hubspot_duplicate_check_2 # NULL
    /\ eligible(store[2])

\* C17: what normalize_text returns is made of letters a-z, digits and
\* single spaces, with no space at either end; normalising it again gives
\* it back; and for an argument that is not a text it is the empty text.
C17_NormalizeTextIdempotent ==
    pc = "returned_text" =>
        /\ \A k \in DOMAIN normalized :
               normalized[k] \in {"a", "b", "e", "f", "i", "1", " "}
        /\ normalized # <<>> =>
               normalized[1] # " " /\ normalized[Len(normalized)] # " "
        /\ \A k \in DOMAIN normalized :
               (k > 1 /\ normalized[k] = " ") => normalized[k - 1] # " "
        /\ normalize_text([type |-> "str", chars |-> normalized]) = normalized
        /\ value.type # "str" => normalized = <<>>

\* C17 witness: a text with a ligature, a spacing diacritic and a capital
\* is normalised to "fi b".
C17_Witness ==
    /\ pc = "returned_text"
    /\ value = [type |-> "str",
                chars |-> <<"fi_LIGATURE", "DIAERESIS", "B">>]
    /\ normalized = <<"f", "i", " ", "b">>

\* C18: in a run the leads are handled one after the other in the order of
\* the fetch: the updates issued so far are those of leads before the
\* position of the loop, in that order, one at most for a lead id; every
\* lead before the position ended with its update or with a caught
\* exception; and the lead handed to process_lead is the fetched lead at
\* the position, an eligible one.
C18_OneLeadAtATime ==
    pc \in {"loop", "blocked"} =>
        LET pos(id) == CHOOSE k \in DOMAIN leads : leads[k].id = id
        IN  /\ \A j \in DOMAIN writes :
                  /\ \E k \in DOMAIN leads : leads[k].id = writes[j].id
                  /\ pos(writes[j].id) < idx
            /\ \A i, j \in DOMAIN writes :
                  i < j => pos(writes[i].id) < pos(writes[j].id)
            /\ \A i, j \in DOMAIN leads : i # j => leads[i].id # leads[j].id
            /\ Len(writes) + raised = idx - 1
            /\ lead # NoLead =>
                  lead = leads[IF pc = "blocked" THEN idx ELSE idx - 1]
            /\ \A k \in DOMAIN leads :
                  /\ leads[k].email \notin {"", NULL}
                  /\ leads[k].zerobounce_status = "valid"
                  /\ leads[k].hubspot_duplicate_check_2 = NULL

\* C18 witness: two leads were fetched and each has had its one update, the
\* first before the second.
C18_Witness ==
    /\ pc = "loop" /\ Len(leads) = 2 /\ idx = 3
    /\ writes = <<[id |-> leads[1].id, outcome |-> "error"],
                  [id |-> leads[2].id, outcome |-> "updated"]>>
    /\ lead = leads[2]

\* C19: between two consecutive leads of a batch the pacing delay takes
\* place, whether the earlier lead was updated, was written with no row
\* affected, or failed: when the loop comes to a lead, every lead before it
\* was followed by one delay.
C19_DelayBetweenLeads ==
    (pc = "loop" /\ idx <= Len(leads)) => sleeps = idx - 1

\* C20: for a lead whose property name is empty or absent the deal category
\* and the directory category yield not-found and neither the deal search
\* nor the directory search is invoked; a search that is invoked is for a
\* lead with a property name.
C20_PropertyNameRequired ==
    pc \in {"returned_deal", "returned_alohacamp"} =>
        /\ lead.property_name \in {"", NULL} =>
               /\ calls = <<>>
               /\ env.deal = NoRequest /\ env.directory = NoRequest
               /\ deal_check = [found |-> FALSE]
               /\ alohacamp_check = [found |-> FALSE]
        /\ calls # <<>> => lead.property_name = "Seaside Villa"

\* C20 witness: the directory is configured, the lead has no property name
\* and the directory category has returned not-found without a search.
C20_Witness ==
    /\ pc = "returned_alohacamp"
    /\ airtable_token = "pat" /\ airtable_base = "app"
    /\ lead.property_name = NULL
    /\ calls = <<>> /\ alohacamp_check = [found |-> FALSE]

\* C21: the directory category scores, accepts and breaks ties as the deal
\* category does: with the directory configured and both searches
\* answering with the same candidate names in the same order, the two
\* categories find a match in the same cases, select the candidate at the
\* same position and record the same score.
C21_DirectoryAsDeal ==
    (pc = "returned_both"
         /\ airtable_configured(airtable_token, airtable_base)) =>
        /\ deal_check.found = alohacamp_check.found
        /\ deal_check.found =>
               /\ deal_check.deal_id = alohacamp_check.match_id
               /\ deal_check.deal_score = alohacamp_check.score

\* C21 witness: two candidates tie at 70 and both categories select the
\* first with score 70.
C21_Witness ==
    /\ pc = "returned_both"
    /\ Len(Yield(env.deal)) = 2 /\ Len(Yield(env.directory)) = 2
    /\ Yield(env.directory)[1].fields["Name"].token_set_ratio = 69
    /\ Yield(env.directory)[1].fields["Name"].partial_token_sort_ratio = 70
    /\ Yield(env.directory)[2].fields["Name"].token_set_ratio = 70
    /\ deal_check.found /\ deal_check.deal_id = 1
    /\ alohacamp_check.found /\ alohacamp_check.match_id = 1
    /\ alohacamp_check.score = 70

\* C22: a category result with found = false has no other field, for the
\* contact, deal and directory categories and on every path to not-found:
\* no search attempted, an empty answer, an adapter failure, and candidates
\* that all stay under the threshold.
C22_NotFoundIsBare ==
    /\ (pc = "returned" /\ ~contact_check.found) =>
           DOMAIN contact_check = {"found"}
    /\ (pc \in {"returned_deal", "returned_both"} /\ ~deal_check.found) =>
           DOMAIN deal_check = {"found"}
    /\ (pc \in {"returned_alohacamp", "returned_both"}
            /\ ~alohacamp_check.found) =>
           DOMAIN alohacamp_check = {"found"}

\* C22 witness: the deal search answered with a candidate whose scores stay
\* under the threshold and the result is the bare not-found.
C22_Witness ==
    /\ pc = "returned_deal"
    /\ Len(Yield(env.deal)) = 1
    /\ Yield(env.deal)[1].properties.dealname.token_set_ratio = 69
    /\ Yield(env.deal)[1].properties.dealname.partial_token_sort_ratio = 69
    /\ DOMAIN deal_check = {"found"}

\* C29: a found contact result names the strategy that produced the matched
\* candidate: "email" exactly when the email search had a result, "phone"
\* exactly when the email search was empty and the phone search had a
\* result, "name" exactly when both were empty or skipped and a name
\* candidate was accepted; the matched contact is the first email or phone
\* result or the accepted name candidate, and the match type is never empty.
C29_MatchTypeNamesStrategy ==
    (pc = "returned" /\ contact_check.found) =>
        LET by_email == Yield(env.email)
            by_phone == Yield(env.phone)
            by_name == Yield(env.name)
            j == name_match(lead, by_name, 1)
            type == contact_check.match_type
        IN  /\ type \in {"email", "phone", "name"}
            /\ type = "email" <=> by_email # <<>>
            /\ type = "phone" <=> (by_email = <<>> /\ by_phone # <<>>)
            /\ type = "name" <=>
                   (by_email = <<>> /\ by_phone = <<>> /\ j > 0)
            /\ type = "email" => contact_check.contact_id = by_email[1].id
            /\ type = "phone" => contact_check.contact_id = by_phone[1].id
            /\ type = "name" => contact_check.contact_id = by_name[j].id

\* C29 witness: the email search and the phone search were both made and
\* came back empty, and the name strategy accepted its first candidate.
C29_Witness ==
    /\ pc = "returned"
    /\ calls = <<"search_contacts_by_email", "search_contacts_by_phone",
                 "search_contacts_by_name">>
    /\ env.email.kind = "ok" /\ env.phone.kind = "ok"
    /\ Len(Yield(env.name)) = 1
    /\ contact_check.found /\ contact_check.match_type = "name"
    /\ contact_check.contact_id = Yield(env.name)[1].id

\* C25: in the summary process_batch returns, every attempted lead is
\* counted once, as updated or as error: updated plus errors is the number
\* of leads processed, also after a write that affected no row.
C25_EveryLeadCounted ==
    (pc = "idle" /\ "leads_processed" \in DOMAIN result) =>
        result.updated_count + result.errors = result.leads_processed

\* C28: for a directory match the field that is scored, the field the
\* search filters on and the field reported as the match name are one field
\* of the selected record: the reported match name is the name whose score
\* reached the threshold.
C28_ReportedNameIsScoredName ==
    (pc = "returned_alohacamp" /\ alohacamp_check.found) =>
        \E i \in DOMAIN Yield(env.directory) :
            LET record == Yield(env.directory)[i]
            IN  /\ alohacamp_check.match_id = record.id
                /\ alohacamp_check.score = record_score(lead, record)
                /\ alohacamp_check.match_name = record.fields["Name"].text

\* C24: whenever a validator run stores the result for a lead, a do_not_mail
\* with sub-status role_based is stored as valid with an empty sub-status,
\* an invalid or a catch-all is stored as invalid, and every other status is
\* stored as reported; the row stored for a role_based do_not_mail is one
\* the duplicate checker takes, the row stored for any other do_not_mail is
\* not.
C24_StoredValidationStatus ==
    [][\A v \in ValidatorRuns :
          (/\ validators[v].pc = "update"
           /\ validators'[v].k = validators[v].k + 1
           /\ store' # store) =>
              LET l == validators[v].leads[validators[v].k]
                  item == validators[v].validation_results[l.email]
                  row == store'[l.id]
                  role_based == item.status = "do_not_mail"
                                    /\ item.sub_status = "role_based"
              IN  /\ role_based =>
                         /\ row.zerobounce_status = "valid"
                         /\ row.zerobounce_sub_status = ""
                         /\ eligible(row)
                  /\ item.status \in {"invalid", "catch-all"} =>
                         row.zerobounce_status = "invalid"
                  /\ (~role_based /\ item.status \notin {"invalid", "catch-all"})
                         => row.zerobounce_status = item.status
                  /\ (item.status = "do_not_mail" /\ ~role_based) =>
                         ~eligible(row)]_vars

\* C24 witness: a run has stored a role_based do_not_mail for its first
\* lead and the row is valid, without sub-status, and eligible for the
\* duplicate checker.
C24_Witness ==
    \E v \in ValidatorRuns :
        /\ validators[v].pc = "update" /\ validators[v].k = 2
        /\ LET l == validators[v].leads[1]
           IN  /\ l.email \in DOMAIN validators[v].validation_results
               /\ validators[v].validation_results[l.email] =
                      [status |-> "do_not_mail", sub_status |-> "role_based"]
               /\ store[l.id].zerobounce_status = "valid"
               /\ store[l.id].zerobounce_sub_status = ""
               /\ eligible(store[l.id])

\* C23: the duplicate checker fetches exactly the leads with
\* zerobounce_status 'valid', zerobounce_processed TRUE,
\* hubspot_check_2_completed null or false and an email: every lead a fetch
\* of the checker returns is such a row of the store, and a lead the
\* validator has just stored as valid is among them.
C23_FetchesAuditedLeads ==
    [][(pc = "idle" /\ pc' = "loop") =>
          \A j \in DOMAIN leads' : hs_eligible(store[leads'[j].id])]_vars

\* C27: under every interleaving of validator runs and checker runs a lead
\* with a duplicate decision recorded has zerobounce_status 'valid'.
C27_DecidedLeadIsValid ==
    \A i \in DOMAIN store :
        store[i].hubspot_duplicate_check_2 # NULL =>
            store[i].zerobounce_status = "valid"

\* C26: under repeated failure-free runs of process_batch without a start
\* identifier every eligible lead of the store eventually has a decision,
\* whatever its identifier and however many decided or ineligible rows
\* have smaller identifiers.  No row is added and a decision is never
\* taken back, so this is: eventually no row of the store is left eligible
\* and undecided.
C26_EveryEligibleLeadDecided ==
    <>(\A i \in DOMAIN store : ~eligible(store[i]))

====
